---- MODULE Spec2Model ----
(***************************************************************************)
(* pg-parallel: the dispatcher (PgParallel), its main-side retry and       *)
(* circuit breaker, the retry backoff schedule, the connection budget and  *)
(* the worker runtime's message handler, as state machines.                *)
(*                                                                         *)
(* Specifications:                                                         *)
(*   Spec        main-side query(): breaker + retry (pg-parallel.ts)       *)
(*   LiveSpec    Spec with the fairness of the event loop and of callers   *)
(*   BackoffSpec one protected operation under executeWithRetry            *)
(*   BudgetSpec  construction and worker initialisation (pool sizes)       *)
(*   DispatchSpec task()/worker()/shutdown() and the worker handler        *)
(***************************************************************************)
EXTENDS Integers, Sequences, FiniteSets, TLC

(***************************************************************************)
(* Bounds of the model                                                     *)
(***************************************************************************)
\* concurrent query() callers
MaxQueries == 2
\* wall clock ticks (milliseconds) the model lets pass
MaxTime == 4
\* largest retry.maxAttempts drawn
MaxAttempts == 3
\* largest circuitBreaker.failureThreshold drawn
MaxThreshold == 2
\* largest circuitBreaker.cooldownMs drawn
MaxCooldown == 2
\* largest halfOpenMaxCalls / halfOpenSuccessesToClose drawn
MaxHalfOpen == 2
\* cap on the consecutive-failure counter (the pool stops failing there)
MaxFailures == 3

Min(a, b) == IF a < b THEN a ELSE b
Max(a, b) == IF a > b THEN a ELSE b

(***************************************************************************)
(* Error values: code, name, message and (for an AggregateError) the list  *)
(* of sub-errors.  "undefined" stands for an absent field.                 *)
(***************************************************************************)
Undefined == "undefined"

\* messages that match /timeout/i, /connection/i, /deadlock/i
TimeoutMessages == {"timeout", "Query read timeout", "connection timeout"}
ConnectionMessages == {"connection reset", "Connection terminated unexpectedly",
                       "relation connection_log does not exist", "connection timeout",
                       "deadlock on connection"}
DeadlockMessages == {"deadlock detected", "deadlock on connection"}
OtherMessages == {"read ECONNRESET", "connect ECONNREFUSED", "could not serialize access",
                  "duplicate key value", "Unknown error", "",
                  "Cannot use a pool after calling end on the pool",
                  "Worker circuit breaker is open", "Circuit breaker trial limit reached"}
Messages == TimeoutMessages \cup ConnectionMessages \cup DeadlockMessages \cup OtherMessages

\* code.startsWith('23') / code.startsWith('42')
Codes23 == {"23505"}
Codes42 == {"42P01"}
Codes == {Undefined, "40001", "40P01", "ETIMEDOUT", "57014", "ECONNRESET",
          "ECONNREFUSED", "57P01", "57P02"} \cup Codes23 \cup Codes42

TransientCategories == {"TRANSIENT", "CONNECTION", "TIMEOUT", "DEADLOCK", "SERIALIZATION"}

LeafError(code, name, message) ==
  [code |-> code, name |-> name, message |-> message, errors |-> <<>>,
   wrapped |-> FALSE, category |-> Undefined]

\* the driver errors the local pool rejects with in this model
LeafErrors ==
  { LeafError("ETIMEDOUT", "Error", "timeout"),
    LeafError("40001", "error", "could not serialize access"),
    LeafError("23505", "error", "duplicate key value"),
    LeafError("42P01", "error", "relation connection_log does not exist"),
    LeafError(Undefined, "Error", "Connection terminated unexpectedly"),
    LeafError(Undefined, "SequelizeConnectionError", "read ECONNRESET"),
    LeafError(Undefined, "Error", "") }

\* new AggregateError([e]) as net.connect raises it: the code of the first sub-error
AggregateOf(e) ==
  [code |-> e.code, name |-> "AggregateError", message |-> "", errors |-> <<e>>,
   wrapped |-> FALSE, category |-> Undefined]

RawErrors ==
  LeafErrors \cup {AggregateOf(LeafError("ECONNREFUSED", "Error", "connect ECONNREFUSED"))}

\* what pool.query rejects with once pool.end() was called
PoolClosedError == LeafError(Undefined, "Error", "Cannot use a pool after calling end on the pool")

\* categorizeError testing the name and the message before the code
RECURSIVE categorizeErrorMessageFirst(_)
categorizeErrorMessageFirst(err) ==
  IF err.name = "AggregateError" /\ Len(err.errors) > 0
    THEN categorizeErrorMessageFirst(err.errors[1])
  ELSE IF err.name = "SequelizeConnectionError" THEN "CONNECTION"
  ELSE IF err.message \in TimeoutMessages THEN "TIMEOUT"
  ELSE IF err.message \in ConnectionMessages THEN "CONNECTION"
  ELSE IF err.message \in DeadlockMessages THEN "DEADLOCK"
  ELSE IF err.code = "40001" THEN "SERIALIZATION"
  ELSE IF err.code = "40P01" THEN "DEADLOCK"
  ELSE IF err.code = "ETIMEDOUT" \/ err.code = "57014" THEN "TIMEOUT"
  ELSE IF err.code \in {"ECONNRESET", "ECONNREFUSED", "57P01", "57P02"} THEN "CONNECTION"
  ELSE IF err.code \in Codes23 THEN "CONSTRAINT"
  ELSE IF err.code \in Codes42 THEN "SYNTAX"
  ELSE "UNKNOWN"

\* PgParallel.categorizeError
RECURSIVE categorizeError(_)
categorizeError(err) ==
  IF err.name = "AggregateError" /\ Len(err.errors) > 0 THEN categorizeError(err.errors[1])
  ELSE IF err.code = "40001" THEN "SERIALIZATION"
  ELSE IF err.code = "40P01" THEN "DEADLOCK"
  ELSE IF err.code = "ETIMEDOUT" \/ err.code = "57014" THEN "TIMEOUT"
  ELSE IF err.code \in {"ECONNRESET", "ECONNREFUSED", "57P01", "57P02"} THEN "CONNECTION"
  ELSE IF err.code \in Codes23 THEN "CONSTRAINT"
  ELSE IF err.code \in Codes42 THEN "SYNTAX"
  ELSE IF err.name = "SequelizeConnectionError" THEN "CONNECTION"
  ELSE IF err.message \in TimeoutMessages THEN "TIMEOUT"
  ELSE IF err.message \in ConnectionMessages THEN "CONNECTION"
  ELSE IF err.message \in DeadlockMessages THEN "DEADLOCK"
  ELSE "UNKNOWN"

\* new PgParallelError(message, category, cause): name, message, category; no code
PgParallelError(message, category) ==
  [code |-> Undefined, name |-> "PgParallelError", message |-> message, errors |-> <<>>,
   wrapped |-> TRUE, category |-> category]

\* PgParallel.wrapError
wrapError(error) ==
  IF error.wrapped THEN error
  ELSE LET baseError == IF error.name = "AggregateError" /\ Len(error.errors) > 0
                          THEN error.errors[1] ELSE error
           category == categorizeError(baseError)
           message == IF baseError.message = Undefined \/ baseError.message = ""
                        THEN "Unknown error" ELSE baseError.message
       IN PgParallelError(message, category)

\* PgParallel.isTransient
isTransient(error) == categorizeError(error) \in TransientCategories

\* ErrorUtils.categorizeError
RECURSIVE categorizeErrorUtils(_)
categorizeErrorUtils(err) ==
  IF err.name = "AggregateError" /\ Len(err.errors) > 0 THEN categorizeErrorUtils(err.errors[1])
  ELSE IF err.code = "40001" THEN "SERIALIZATION"
  ELSE IF err.code = "40P01" THEN "DEADLOCK"
  ELSE IF err.code = "ETIMEDOUT" \/ err.code = "57014" THEN "TIMEOUT"
  ELSE IF err.code = "ECONNRESET" \/ err.code = "ECONNREFUSED" \/ err.code = "57P01"
          \/ err.code = "57P02" THEN "CONNECTION"
  ELSE IF err.code # Undefined /\ err.code \in Codes23 THEN "CONSTRAINT"
  ELSE IF err.code # Undefined /\ err.code \in Codes42 THEN "SYNTAX"
  ELSE IF err.name = "SequelizeConnectionError" THEN "CONNECTION"
  ELSE IF err.message \in TimeoutMessages THEN "TIMEOUT"
  ELSE IF err.message \in ConnectionMessages THEN "CONNECTION"
  ELSE IF err.message \in DeadlockMessages THEN "DEADLOCK"
  ELSE "UNKNOWN"

\* ErrorUtils.CODE_CATEGORY_MAP
CODE_CATEGORY_MAP ==
  [c \in {"40001", "40P01", "ETIMEDOUT", "57014", "ECONNRESET", "ECONNREFUSED", "57P01",
          "57P02"} |->
     CASE c = "40001" -> "SERIALIZATION"
       [] c = "40P01" -> "DEADLOCK"
       [] c \in {"ETIMEDOUT", "57014"} -> "TIMEOUT"
       [] OTHER -> "CONNECTION"]

\* ErrorUtils.categorizeError with the lookup table
RECURSIVE categorizeErrorTable(_)
categorizeErrorTable(err) ==
  IF err.name = "AggregateError" /\ Len(err.errors) > 0 THEN categorizeErrorTable(err.errors[1])
  ELSE IF err.code # Undefined /\ err.code \in DOMAIN CODE_CATEGORY_MAP
    THEN CODE_CATEGORY_MAP[err.code]
  ELSE IF err.code # Undefined /\ err.code \in Codes23 THEN "CONSTRAINT"
  ELSE IF err.code # Undefined /\ err.code \in Codes42 THEN "SYNTAX"
  ELSE IF err.name = "SequelizeConnectionError" THEN "CONNECTION"
  ELSE IF err.message \notin {Undefined, ""} /\ err.message \in TimeoutMessages THEN "TIMEOUT"
  ELSE IF err.message \notin {Undefined, ""} /\ err.message \in ConnectionMessages
    THEN "CONNECTION"
  ELSE IF err.message \notin {Undefined, ""} /\ err.message \in DeadlockMessages
    THEN "DEADLOCK"
  ELSE "UNKNOWN"

\* ErrorUtils.FAST_TRANSIENT_CODES
FAST_TRANSIENT_CODES ==
  {"ETIMEDOUT", "57014", "ECONNRESET", "ECONNREFUSED", "57P01", "57P02", "40001", "40P01"}

\* ErrorUtils.isTransient with the fast paths: the error's own code, then its own
\* message, then the full categorization
isTransientOptimized(error) ==
  IF error.code # Undefined /\ error.code \in FAST_TRANSIENT_CODES THEN TRUE
  ELSE IF error.message \notin {Undefined, ""}
            /\ error.message \in TimeoutMessages \cup ConnectionMessages \cup DeadlockMessages
    THEN TRUE
  ELSE categorizeErrorTable(error) \in TransientCategories

\* isTransient of the worker script
isTransientWorker(error) ==
  IF error.code = "40001" \/ error.code = "40P01" THEN TRUE
  ELSE IF error.code = "ETIMEDOUT" \/ error.code = "57014" THEN TRUE
  ELSE IF error.code = "ECONNRESET" \/ error.code = "ECONNREFUSED" \/ error.code = "57P01"
          \/ error.code = "57P02" THEN TRUE
  ELSE IF error.message \notin {Undefined, ""}
            /\ error.message \in TimeoutMessages \cup DeadlockMessages \cup ConnectionMessages
    THEN TRUE
  ELSE FALSE

\* no error value under wrapError
NoWrap == [pc |-> "none", error |-> LeafError(Undefined, Undefined, Undefined),
           wrapped |-> LeafError(Undefined, Undefined, Undefined), category |-> Undefined]

(***************************************************************************)
(* Retry schedule (PgParallel.executeWithRetry, RetryUtils.executeWithRetry)*)
(* backoffFactor is the rational factorNum / FactorDen.                    *)
(***************************************************************************)
FactorDen == 2

\* let delay = Math.max(0, cfg.initialDelayMs)
RetryInitialDelay(cfg) == Max(0, cfg.initialDelayMs)

\* const maxDelay = Math.max(delay, cfg.maxDelayMs)
RetryMaxDelay(cfg) == Max(RetryInitialDelay(cfg), cfg.maxDelayMs)

\* jitter = cfg.jitter ? Math.random() * 0.25 * delay : 0   (whole milliseconds)
RetryJitters(cfg, delay) == IF cfg.jitter THEN 0 .. (delay \div 4) ELSE {0}

\* const wait = Math.min(maxDelay, delay + jitter)
RetryWait(maxDelay, delay, jitter) == Min(maxDelay, delay + jitter)

\* delay = Math.min(maxDelay, Math.ceil(delay * cfg.backoffFactor))
RetryNextDelay(cfg, maxDelay, delay) ==
  Min(maxDelay, (delay * cfg.factorNum + FactorDen - 1) \div FactorDen)

\* mutant of CanRetry: the attempt bound off by one
CanRetryOffByOne(cfg, attempt, error) == attempt <= cfg.maxAttempts /\ isTransient(error)

\* const canRetry = attempt < cfg.maxAttempts && shouldRetry(error)
CanRetry(cfg, attempt, error) == attempt < cfg.maxAttempts /\ isTransient(error)

(***************************************************************************)
(* State                                                                   *)
(***************************************************************************)
VARIABLES
  now,                  \* Date.now()
  config,               \* this.config: retry and circuitBreaker (each may be absent)
  breakerState,         \* 'CLOSED' | 'OPEN' | 'HALF_OPEN'
  consecutiveFailures,
  halfOpenAllowedCalls,
  halfOpenSuccesses,
  breakerOpenedAt,
  qs,                   \* the query() calls in progress, one record per caller
  log,                  \* config.logger: whether one is attached, and what the last step
                        \* of query() wrote to it
  bo,                   \* one operation under RetryUtils.executeWithRetry
  poolConfig,           \* this.config: max and maxWorkers
  localMax,             \* max of this.localPool
  initializationPromise,\* "null" | "pending" | "resolved"
  workers,              \* this.workers: sequence of [threadId, isBusy]
  currentWorkerIndex,   \* round-robin cursor (0-based, as in the code)
  pendingRequests,      \* keys of this.pendingRequests
  isShutdown,
  shutdownPc,           \* where shutdown() stands: "none" | "ending" | "terminating" | "returned"
  uuids,                \* number of uuidv4() values drawn so far
  awaiting,             \* task()/worker() calls suspended at await ensureWorkersInitialized()
  parallelClients,      \* the ParallelClient objects constructed: [id, worker]
  threads,              \* the worker threads: [state, max, inbox]
  handlers,             \* running instances of the worker's message handler
  activeClients,        \* the workers' activeClients maps: [worker, clientId, session]
  releases,             \* per checked-out client (by session request): [worker, n] calls of release()
  replies,              \* messages posted by workers, not yet handled by the main thread
  posted,               \* history: every message the dispatcher posted
  settled,              \* history: request ids whose promise was resolved or rejected
  handled,              \* history: request ids whose worker handler ran to its end
  failures,             \* history: [requestId, error] for every error a worker handler caught
  rejections,           \* history: [requestId, worker, error] for every request promise rejected
  thrown,               \* history: errors task()/worker() threw before registering a request
  ends,                 \* history: calls of shutdown(), localPool.end() and worker.terminate()
  workerBreaker,        \* per worker thread: the breaker of the worker script with resilience
  wrapping,             \* one error value under wrapError and categorizeError
  paths                 \* the same calls run by executeWithBreakerAndRetry with and
                        \* without its fast path, each on a breaker of its own

resVars == <<now, config, breakerState, consecutiveFailures, halfOpenAllowedCalls,
             halfOpenSuccesses, breakerOpenedAt, qs, log>>

boVars == <<bo>>

mainVars == <<poolConfig, localMax, initializationPromise, workers, currentWorkerIndex,
              pendingRequests, isShutdown, shutdownPc, uuids, awaiting, parallelClients,
              posted, settled, rejections, thrown, ends>>

workerVars == <<threads, handlers, activeClients, releases, replies, handled, failures>>

dispVars == <<mainVars, workerVars>>

guardVars == <<workerBreaker>>

wrapVars == <<wrapping>>

pathVars == <<paths>>

vars == <<resVars, boVars, dispVars, guardVars, wrapVars, pathVars>>

\* what query() leaves alone
notResVars == <<boVars, dispVars, guardVars, wrapVars, pathVars>>

\* what executeWithRetry leaves alone
notBoVars == <<resVars, dispVars, guardVars, wrapVars, pathVars>>

\* what the dispatcher and the workers without a breaker leave alone
notDispVars == <<resVars, boVars, guardVars, wrapVars, pathVars>>

\* what the workers with a breaker leave alone
notGuardVars == <<resVars, boVars, wrapVars, pathVars>>

\* what wrapError and categorizeError leave alone
notWrapVars == <<resVars, boVars, dispVars, guardVars, pathVars>>

Queries == 1 .. MaxQueries

NoResult == [kind |-> "none", message |-> "", category |-> Undefined, wrapped |-> FALSE]
OkResult == [kind |-> "ok", message |-> "", category |-> Undefined, wrapped |-> FALSE]
ErrResult(e) == [kind |-> "error", message |-> e.message, category |-> e.category,
                 wrapped |-> e.wrapped]

IdleQuery ==
  [pc |-> "idle", attempt |-> 0, failed |-> 0, delay |-> 0, maxDelay |-> 0, wakeAt |-> 0,
   inWindow |-> FALSE, result |-> NoResult, late |-> FALSE, ended |-> FALSE]

\* the circuit breaker configurations drawn
BreakerConfigs ==
  [present : {TRUE}, failureThreshold : 1 .. MaxThreshold, cooldownMs : {MaxCooldown},
   halfOpenMaxCalls : 1 .. MaxHalfOpen, halfOpenSuccessesToClose : 1 .. MaxHalfOpen]

\* config.circuitBreaker absent
NoBreakerConfig ==
  [present |-> FALSE, failureThreshold |-> 0, cooldownMs |-> 0, halfOpenMaxCalls |-> 0,
   halfOpenSuccessesToClose |-> 0]

\* the retry configurations drawn for query()
RetryConfigs ==
  [present : {TRUE}, maxAttempts : 1 .. MaxAttempts, initialDelayMs : {0, 1},
   maxDelayMs : {1}, factorNum : {FactorDen}, jitter : {FALSE}]

\* config.retry absent
NoRetry ==
  [present |-> FALSE, maxAttempts |-> 0, initialDelayMs |-> 0, maxDelayMs |-> 0,
   factorNum |-> FactorDen, jitter |-> FALSE]

DefaultFailureThreshold == 5
DefaultCooldownMs == 10000
DefaultHalfOpenMaxCalls == 2
DefaultHalfOpenSuccessesToClose == 2

\* PgParallel.getCircuitBreakerConfig
getCircuitBreakerConfig ==
  IF ~config.circuitBreaker.present
    THEN [present |-> TRUE, failureThreshold |-> DefaultFailureThreshold, cooldownMs |-> DefaultCooldownMs,
          halfOpenMaxCalls |-> DefaultHalfOpenMaxCalls,
          halfOpenSuccessesToClose |-> DefaultHalfOpenSuccessesToClose]
    ELSE config.circuitBreaker

\* breaker fields as one record, so that the handlers below are functions of it
Breaker ==
  [state |-> breakerState, consecutiveFailures |-> consecutiveFailures,
   halfOpenAllowedCalls |-> halfOpenAllowedCalls, halfOpenSuccesses |-> halfOpenSuccesses,
   openedAt |-> breakerOpenedAt]

SetBreaker(b) ==
  /\ breakerState' = b.state
  /\ consecutiveFailures' = b.consecutiveFailures
  /\ halfOpenAllowedCalls' = b.halfOpenAllowedCalls
  /\ halfOpenSuccesses' = b.halfOpenSuccesses
  /\ breakerOpenedAt' = b.openedAt

\* openBreaker keeping the opened-at time of the previous opening
openBreakerKeepsTime(b, cfg) ==
  [b EXCEPT !.state = "OPEN",
            !.halfOpenAllowedCalls = cfg.halfOpenMaxCalls, !.halfOpenSuccesses = 0]

\* PgParallel.openBreaker
openBreaker(b, cfg) ==
  [b EXCEPT !.state = "OPEN", !.openedAt = now,
            !.halfOpenAllowedCalls = cfg.halfOpenMaxCalls, !.halfOpenSuccesses = 0]

\* onBreakerSuccess closing only above halfOpenSuccessesToClose
onBreakerSuccessAbove(b, cfg) ==
  IF b.state = "HALF_OPEN"
    THEN IF b.halfOpenSuccesses + 1 > cfg.halfOpenSuccessesToClose
           THEN [b EXCEPT !.halfOpenSuccesses = @ + 1, !.state = "CLOSED",
                          !.consecutiveFailures = 0]
           ELSE [b EXCEPT !.halfOpenSuccesses = @ + 1]
    ELSE [b EXCEPT !.consecutiveFailures = 0]

\* PgParallel.onBreakerSuccess
onBreakerSuccess(b, cfg) ==
  IF b.state = "HALF_OPEN"
    THEN IF b.halfOpenSuccesses + 1 >= cfg.halfOpenSuccessesToClose
           THEN [b EXCEPT !.halfOpenSuccesses = @ + 1, !.state = "CLOSED",
                          !.consecutiveFailures = 0]
           ELSE [b EXCEPT !.halfOpenSuccesses = @ + 1]
    ELSE [b EXCEPT !.consecutiveFailures = 0]

\* onBreakerFailure opening only above failureThreshold
onBreakerFailureAbove(b, cfg) ==
  LET b1 == [b EXCEPT !.consecutiveFailures = @ + 1]
  IN IF b1.state = "HALF_OPEN" THEN openBreaker(b1, cfg)
     ELSE IF b1.consecutiveFailures > cfg.failureThreshold /\ b1.state = "CLOSED"
       THEN openBreaker(b1, cfg)
     ELSE b1

\* PgParallel.onBreakerFailure
onBreakerFailure(b, cfg) ==
  LET b1 == [b EXCEPT !.consecutiveFailures = @ + 1]
  IN IF b1.state = "HALF_OPEN" THEN openBreaker(b1, cfg)
     ELSE IF b1.consecutiveFailures >= cfg.failureThreshold /\ b1.state = "CLOSED"
       THEN openBreaker(b1, cfg)
     ELSE b1

\* PgParallel.ensureBreakerState, the OPEN -> HALF_OPEN step (lines 367-375)
ensureHalfOpen(b, cfg) ==
  IF b.state = "OPEN" /\ now - b.openedAt >= cfg.cooldownMs
    THEN [b EXCEPT !.state = "HALF_OPEN", !.halfOpenSuccesses = 0]
    ELSE b

\* the permit check rejecting only below zero
trialLimitReachedBelow(b) == b.state = "HALF_OPEN" /\ b.halfOpenAllowedCalls < 0

\* PgParallel.ensureBreakerState, the permit check (lines 376-381): TRUE when it throws
trialLimitReached(b) == b.state = "HALF_OPEN" /\ b.halfOpenAllowedCalls <= 0

takePermit(b) ==
  IF b.state = "HALF_OPEN" THEN [b EXCEPT !.halfOpenAllowedCalls = @ - 1] ELSE b

\* no config.logger: this.logger = {}
NoLogger == [attached |-> FALSE, records |-> {}]

\* a logger with info and warn
Logger == [attached |-> TRUE, records |-> {}]

\* this.logger.info?.(message, meta) / this.logger.warn?.(message, meta)
LogRecord(level, message, opName, attempt) ==
  [level |-> level, message |-> message, opName |-> opName, attempt |-> attempt]

BreakerOpenedRecord == LogRecord("warn", "Breaker OPENED", Undefined, 0)
BreakerHalfOpenRecord == LogRecord("info", "Breaker HALF_OPEN", Undefined, 0)
BreakerClosedRecord ==
  LogRecord("info", "Breaker CLOSED after successful half-open trials", Undefined, 0)
RejectRecord(opName) == LogRecord("warn", "Breaker OPEN - rejecting operation", opName, 0)
RetryRecord(opName, attempt) == LogRecord("info", "Retrying operation", opName, attempt)

\* the step wrote `records` to the logger, if there is one
Logs(records) ==
  log' = IF log.attached THEN [log EXCEPT !.records = records] ELSE log

\* onBreakerFailure reaching openBreaker() from CLOSED only
callsOpenBreakerFromClosed(b, cfg) ==
  b.consecutiveFailures + 1 >= cfg.failureThreshold /\ b.state = "CLOSED"

\* onBreakerFailure: whether openBreaker(), which logs 'Breaker OPENED', is called
callsOpenBreaker(b, cfg) ==
  \/ b.state = "HALF_OPEN"
  \/ b.consecutiveFailures + 1 >= cfg.failureThreshold /\ b.state = "CLOSED"

\* onBreakerSuccess: whether the closing branch, which logs, is taken
closesBreaker(b, cfg) ==
  b.state = "HALF_OPEN" /\ b.halfOpenSuccesses + 1 >= cfg.halfOpenSuccessesToClose

\* ensureBreakerState: whether the OPEN -> HALF_OPEN branch, which logs, is taken
entersHalfOpen(b, cfg) ==
  b.state = "OPEN" /\ now - b.openedAt >= cfg.cooldownMs

\* CircuitBreakerUtils.createInitialState
createInitialState ==
  [state |-> "CLOSED", consecutiveFailures |-> 0, halfOpenAllowedCalls |-> 0,
   halfOpenSuccesses |-> 0, openedAt |-> 0]

\* CircuitBreakerUtils.ensureBreakerState, the OPEN -> HALF_OPEN step
ensureBreakerState(b, cfg) ==
  IF b.state = "OPEN" /\ now - b.openedAt >= cfg.cooldownMs
    THEN [b EXCEPT !.state = "HALF_OPEN", !.halfOpenSuccesses = 0,
                   !.halfOpenAllowedCalls = cfg.halfOpenMaxCalls]
    ELSE b

\* number of concurrent callers of the two-path comparison, and of calls they make
MaxCallers == 3
MaxCalls == 4

Callers == 1 .. MaxCallers

\* a caller that is not inside query(); `fast` tells which execOnce it runs
IdleCall == [pc |-> "idle", fast |-> FALSE, result |-> "none"]

\* one PgParallel right after construction: its breakerState and its callers
NewManager == [b |-> createInitialState, calls |-> [c \in Callers |-> IdleCall]]

\* two managers given the same calls and the same outcomes; `raced` records whether
\* anything ran between a call's await of ensureBreakerState and its continuation,
\* `issued` counts the calls made
NoPaths == [standard |-> NewManager, fast |-> NewManager, raced |-> FALSE, issued |-> 0]

\* the breaker is OPEN and less than the cooldown has elapsed since it opened
InOpenWindow ==
  breakerState = "OPEN" /\ now - breakerOpenedAt < getCircuitBreakerConfig.cooldownMs

(***************************************************************************)
(* Spec: query() on the main side                                          *)
(***************************************************************************)
(***************************************************************************)
(* Construction: the connection budget                                     *)
(***************************************************************************)
\* config.max is undefined
Absent == -1

\* this.config.max ?? 10
DefaultMax == 10

totalMax(cfg) == IF cfg.max = Absent THEN DefaultMax ELSE cfg.max

\* the same with the divisor maxWorkers: the main thread is not counted as a consumer
WorkerMaxWithoutMainShare(cfg) ==
  IF cfg.maxWorkers > 0 THEN Max(1, totalMax(cfg) \div cfg.maxWorkers) ELSE 0

\* constructor: const workerMax = maxWorkers > 0 ? Math.max(1, floor(totalMax / (maxWorkers + 1))) : 0
ConstructorWorkerMax(cfg) ==
  IF cfg.maxWorkers > 0 THEN Max(1, totalMax(cfg) \div (cfg.maxWorkers + 1)) ELSE 0

\* constructor: const localMax = Math.max(1, totalMax - workerMax * maxWorkers)
ConstructorLocalMax(cfg) ==
  Max(1, totalMax(cfg) - ConstructorWorkerMax(cfg) * cfg.maxWorkers)

\* ensureWorkersInitialized: const workerMax = Math.max(1, floor(totalMax / (maxWorkers + 1)))
WorkerConfigMax(cfg) == Max(1, totalMax(cfg) \div (cfg.maxWorkers + 1))

\* no uuid / no client id in a message
NoId == 0

\* uuidv4() values the model draws
MaxUuids == 4

\* largest maxWorkers drawn for the dispatcher
MaxWorkers == 2

\* a client that was never checked out
NoCheckout == [worker |-> 0, n |-> 0]

\* the dispatcher right after new PgParallel(poolConfig); no worker thread exists yet
DispInit ==
  /\ localMax = ConstructorLocalMax(poolConfig)
  /\ initializationPromise = "null"
  /\ workers = <<>>
  /\ currentWorkerIndex = 0
  /\ pendingRequests = {}
  /\ isShutdown = FALSE
  /\ shutdownPc = "none"
  /\ uuids = 0
  /\ awaiting = <<>>
  /\ parallelClients = {}
  /\ threads = <<>>
  /\ handlers = {}
  /\ activeClients = {}
  /\ releases = [r \in 1 .. MaxUuids |-> NoCheckout]
  /\ replies = {}
  /\ posted = {}
  /\ settled = {}
  /\ handled = {}
  /\ failures = {}
  /\ rejections = {}
  /\ thrown = <<>>
  /\ ends = [calls |-> 0, pool |-> 0, workers |-> <<>>]
  /\ workerBreaker = [w \in 1 .. MaxWorkers |-> createInitialState]

\* a configuration without workers, for the specifications about query()
NoWorkersConfig == [max |-> Absent, maxWorkers |-> 0]

\* the breaker and the callers right after construction
ResInit ==
  /\ now = 0
  /\ breakerState = "CLOSED"
  /\ consecutiveFailures = 0
  /\ halfOpenAllowedCalls = 0
  /\ halfOpenSuccesses = 0
  /\ breakerOpenedAt = 0
  /\ qs = [q \in Queries |-> IdleQuery]

\* no operation under executeWithRetry
BoIdle ==
  [cfg |-> NoRetry, pc |-> "start", attempt |-> 0, delay |-> 0, maxDelay |-> 0,
   lastWait |-> 0, slept |-> 0]

Init ==
  /\ paths = NoPaths
  /\ ResInit
  /\ config \in [retry : RetryConfigs \cup {NoRetry},
                circuitBreaker : BreakerConfigs]
  /\ bo = BoIdle
  /\ wrapping = NoWrap
  /\ log = NoLogger
  /\ poolConfig = NoWorkersConfig
  /\ DispInit

\* the underlying localPool.query is invoked: attempt += 1; await fn();
\* `ended` records whether localPool.end() had been called by then
Invoke(s) ==
  [s EXCEPT !.pc = "calling", !.attempt = @ + 1, !.wakeAt = 0, !.inWindow = FALSE,
            !.result = NoResult, !.ended = ends.pool > 0]

\* the promise of query() settles with r
Settle(s, r) ==
  [s EXCEPT !.pc = "done", !.delay = 0, !.maxDelay = 0, !.wakeAt = 0, !.inWindow = FALSE,
            !.result = r]

\* time passes
Tick ==
  /\ now < MaxTime
  /\ now' = now + 1
  /\ UNCHANGED <<config, breakerState, consecutiveFailures, halfOpenAllowedCalls,
                 halfOpenSuccesses, breakerOpenedAt, qs, log>>
  /\ UNCHANGED notResVars

\* query() that first spawns the workers as ensureWorkersInitialized() would
QueryEnterEager(q) ==
  /\ qs[q].pc = "idle"
  /\ LET cfg == getCircuitBreakerConfig
         b1 == ensureHalfOpen(Breaker, cfg)
         s == [IdleQuery EXCEPT !.late = shutdownPc = "returned"]
     IN IF trialLimitReached(b1)
          THEN /\ SetBreaker(b1)
               /\ qs' = [qs EXCEPT ![q] =
                           Settle(s,
                                  ErrResult(PgParallelError(
                                    "Circuit breaker trial limit reached", "CONNECTION")))]
          ELSE /\ SetBreaker(takePermit(b1))
               /\ qs' = [qs EXCEPT ![q] = [s EXCEPT !.pc = "entered",
                                             !.inWindow = InOpenWindow]]
  /\ Logs(IF entersHalfOpen(Breaker, getCircuitBreakerConfig)
            THEN {BreakerHalfOpenRecord} ELSE {})
  /\ IF initializationPromise # "null" \/ isShutdown \/ poolConfig.maxWorkers = 0
       THEN UNCHANGED <<initializationPromise, workers, threads>>
       ELSE /\ initializationPromise' = "pending"
            /\ workers' = [i \in 1 .. poolConfig.maxWorkers |-> [threadId |-> i, isBusy |-> FALSE]]
            /\ threads' = [i \in 1 .. poolConfig.maxWorkers |->
                             [state |-> "starting", cameOnline |-> FALSE,
                              max |-> WorkerConfigMax(poolConfig), inbox |-> <<>>]]
  /\ UNCHANGED <<now, config>>
  /\ UNCHANGED <<poolConfig, localMax, currentWorkerIndex, pendingRequests, isShutdown,
                 shutdownPc, uuids, awaiting, parallelClients, posted, settled, rejections,
                 thrown, ends>>
  /\ UNCHANGED <<handlers, activeClients, releases, replies, handled, failures>>
  /\ UNCHANGED <<boVars, guardVars, wrapVars, pathVars>>

\* query() -> executeWithBreakerAndRetry: ensureBreakerState() runs, then the await;
\* `late` records whether shutdown() had returned when query() was called
QueryEnter(q) ==
  /\ qs[q].pc = "idle"
  /\ LET cfg == getCircuitBreakerConfig
         b1 == ensureHalfOpen(Breaker, cfg)
         s == [IdleQuery EXCEPT !.late = shutdownPc = "returned"]
     IN IF trialLimitReached(b1)
          THEN /\ SetBreaker(b1)
               /\ qs' = [qs EXCEPT ![q] =
                           Settle(s,
                                  ErrResult(PgParallelError(
                                    "Circuit breaker trial limit reached", "CONNECTION")))]
          ELSE /\ SetBreaker(takePermit(b1))
               /\ qs' = [qs EXCEPT ![q] = [s EXCEPT !.pc = "entered",
                                             !.inWindow = InOpenWindow]]
  /\ Logs(IF entersHalfOpen(Breaker, getCircuitBreakerConfig)
            THEN {BreakerHalfOpenRecord} ELSE {})
  /\ UNCHANGED <<now, config>>
  /\ UNCHANGED notResVars

\* after the await: the OPEN check; otherwise the first attempt starts
QueryCheck(q) ==
  /\ qs[q].pc = "entered"
  /\ IF breakerState = "OPEN"
       THEN /\ qs' = [qs EXCEPT ![q] =
                       Settle(@, ErrResult(PgParallelError("Circuit breaker is open",
                                                           "CONNECTION")))]
            /\ Logs({RejectRecord("main.query")})
       ELSE /\ qs' = [qs EXCEPT ![q] =
                       IF ~config.retry.present THEN Invoke(@)
                       ELSE Invoke([@ EXCEPT !.delay = RetryInitialDelay(config.retry),
                                             !.maxDelay = RetryMaxDelay(config.retry)])]
            /\ Logs({})
  /\ UNCHANGED <<now, config, breakerState, consecutiveFailures, halfOpenAllowedCalls,
                 halfOpenSuccesses, breakerOpenedAt>>
  /\ UNCHANGED notResVars

\* the pool, not ended when it was called, resolves: onBreakerSuccess(); the result is returned
PoolSucceed(q) ==
  /\ qs[q].pc = "calling"
  /\ ~qs[q].ended
  /\ SetBreaker(onBreakerSuccess(Breaker, getCircuitBreakerConfig))
  /\ Logs(IF closesBreaker(Breaker, getCircuitBreakerConfig) THEN {BreakerClosedRecord} ELSE {})
  /\ qs' = [qs EXCEPT ![q] = Settle(@, OkResult)]
  /\ UNCHANGED <<now, config>>
  /\ UNCHANGED notResVars

\* the pool rejects with e (an ended pool with PoolClosedError): onBreakerFailure();
\* wrapError; then the retry decision
PoolFail(q, e) ==
  /\ qs[q].pc = "calling"
  /\ qs[q].ended <=> e = PoolClosedError
  /\ consecutiveFailures < MaxFailures
  /\ now + MaxCooldown <= MaxTime
  /\ SetBreaker(onBreakerFailure(Breaker, getCircuitBreakerConfig))
  /\ Logs(IF callsOpenBreaker(Breaker, getCircuitBreakerConfig) THEN {BreakerOpenedRecord} ELSE {})
  /\ LET error == wrapError(e)
         s == [qs[q] EXCEPT !.failed = @ + 1, !.result = ErrResult(error)]
     IN IF config.retry.present /\ CanRetry(config.retry, s.attempt, error)
          THEN \E jitter \in RetryJitters(config.retry, s.delay) :
                 qs' = [qs EXCEPT ![q] = [s EXCEPT !.pc = "sleeping",
                           !.wakeAt = now + RetryWait(s.maxDelay, s.delay, jitter)]]
          ELSE qs' = [qs EXCEPT ![q] = Settle(s, ErrResult(error))]
  /\ UNCHANGED <<now, config>>
  /\ UNCHANGED notResVars

\* the backoff timer fires: delay is advanced and the next attempt starts
RetryWake(q) ==
  /\ qs[q].pc = "sleeping"
  /\ now >= qs[q].wakeAt
  /\ qs' = [qs EXCEPT ![q] =
              Invoke([qs[q] EXCEPT !.delay =
                        RetryNextDelay(config.retry, qs[q].maxDelay, qs[q].delay)])]
  /\ Logs({RetryRecord("main.query", qs[q].attempt + 1)})
  /\ UNCHANGED <<now, config, breakerState, consecutiveFailures, halfOpenAllowedCalls,
                 halfOpenSuccesses, breakerOpenedAt>>
  /\ UNCHANGED notResVars

\* the caller takes the settled promise's outcome
QueryReturn(q) ==
  /\ qs[q].pc = "done"
  /\ qs' = [qs EXCEPT ![q] = IdleQuery]
  /\ Logs({})
  /\ UNCHANGED <<now, config, breakerState, consecutiveFailures, halfOpenAllowedCalls,
                 halfOpenSuccesses, breakerOpenedAt>>
  /\ UNCHANGED notResVars

Next ==
  \/ Tick
  \/ \E q \in Queries : QueryEnter(q)
  \/ \E q \in Queries : QueryCheck(q)
  \/ \E q \in Queries : PoolSucceed(q)
  \/ \E q \in Queries, e \in RawErrors : PoolFail(q, e)
  \/ \E q \in Queries : RetryWake(q)
  \/ \E q \in Queries : QueryReturn(q)

Spec == Init /\ [][Next]_vars

\* the event loop runs every ready continuation, timers fire, the pool answers,
\* the clock advances and callers keep calling query()
Fairness ==
  /\ WF_vars(Tick)
  /\ \A q \in Queries :
       /\ WF_vars(QueryEnter(q))
       /\ WF_vars(QueryCheck(q))
       /\ WF_vars(PoolSucceed(q))
       /\ WF_vars(RetryWake(q))
       /\ WF_vars(QueryReturn(q))

\* retry configurations of the liveness check
LiveRetryConfigs == {c \in RetryConfigs : c.maxAttempts = 2 /\ c.initialDelayMs = 1} \cup {NoRetry}

LiveInit ==
  /\ Init
  /\ config.retry \in LiveRetryConfigs

LiveSpec == LiveInit /\ [][Next]_vars /\ Fairness

(***************************************************************************)
(* BackoffSpec: one protected operation under RetryUtils.executeWithRetry  *)
(* (the worker's connect/query), for every drawn retry configuration       *)
(***************************************************************************)
\* largest initialDelayMs / maxDelayMs drawn
MaxDelayMs == 5

\* backoffFactor 1, 1.5 and 2
BackoffFactorNums == {FactorDen, FactorDen + 1, 2 * FactorDen}

BackoffConfigs ==
  [present : {TRUE}, maxAttempts : 1 .. MaxAttempts, initialDelayMs : 0 .. MaxDelayMs,
   maxDelayMs : 0 .. MaxDelayMs, factorNum : BackoffFactorNums, jitter : BOOLEAN]

BackoffInit ==
  /\ paths = NoPaths
  /\ ResInit
  /\ config = [retry |-> NoRetry, circuitBreaker |-> NoBreakerConfig]
  /\ bo \in {[BoIdle EXCEPT !.cfg = c] : c \in BackoffConfigs}
  /\ wrapping = NoWrap
  /\ log = NoLogger
  /\ poolConfig = NoWorkersConfig
  /\ DispInit

\* let attempt = 0; let delay = ...; const maxDelay = ...; attempt += 1; await fn()
BackoffStart ==
  /\ bo.pc = "start"
  /\ bo' = [bo EXCEPT !.pc = "calling", !.attempt = 1,
                       !.delay = RetryInitialDelay(bo.cfg), !.maxDelay = RetryMaxDelay(bo.cfg)]
  /\ UNCHANGED notBoVars

\* fn() resolves: return result
BackoffSucceed ==
  /\ bo.pc = "calling"
  /\ bo' = [bo EXCEPT !.pc = "returned"]
  /\ UNCHANGED notBoVars

\* fn() rejects with e: rethrow, or compute the wait and sleep
BackoffFail(e) ==
  /\ bo.pc = "calling"
  /\ IF CanRetry(bo.cfg, bo.attempt, e)
       THEN \E jitter \in RetryJitters(bo.cfg, bo.delay) :
              LET wait == RetryWait(bo.maxDelay, bo.delay, jitter)
              IN bo' = [bo EXCEPT !.pc = "sleeping", !.lastWait = wait, !.slept = @ + wait]
       ELSE bo' = [bo EXCEPT !.pc = "thrown"]
  /\ UNCHANGED notBoVars

\* the timer fires: delay is advanced, attempt += 1, await fn()
BackoffWake ==
  /\ bo.pc = "sleeping"
  /\ bo' = [bo EXCEPT !.pc = "calling", !.attempt = @ + 1,
                       !.delay = RetryNextDelay(bo.cfg, bo.maxDelay, bo.delay)]
  /\ UNCHANGED notBoVars

BackoffNext ==
  \/ BackoffStart
  \/ BackoffSucceed
  \/ \E e \in RawErrors : BackoffFail(e)
  \/ BackoffWake

BackoffSpec == BackoffInit /\ [][BackoffNext]_vars

(***************************************************************************)
(* The dispatcher: warmup(), task(), worker(), ParallelClient.query and    *)
(* shutdown() on the main thread                                           *)
(***************************************************************************)
\* task()/worker() calls suspended at the await at one time
MaxAwaiting == 2
\* largest config.max and maxWorkers drawn for the budget
MaxBudget == 12
MaxBudgetWorkers == 6

\* errors task()/worker() throw before a request is registered, kept in `thrown`
MaxThrown == 2
\* calls of shutdown()
MaxShutdownCalls == 2

\* task(fn, args), worker(fn) and worker({taskPath, ...})
CallKinds == {"task", "workerFn", "workerFile"}

\* a call and whether its arguments survive the structured clone of postMessage;
\* worker(fn) posts only the function's source text and a uuid
Calls ==
  {c \in [kind : CallKinds, cloneable : BOOLEAN] : c.kind = "workerFn" => c.cloneable}

\* throw new Error('No workers available. Instance has been shut down.')
ShutDownError ==
  LeafError(Undefined, "Error", "No workers available. Instance has been shut down.")

\* throw new Error("No workers available. Configure 'maxWorkers' to be greater than 0 ...")
NoWorkersError ==
  LeafError(Undefined, "Error", "No workers available. Configure 'maxWorkers' to be greater than 0 to use this feature.")

\* what worker.postMessage throws for a value the structured clone rejects
DataCloneError == LeafError("25", "DataCloneError", "could not be cloned")

\* no error: the reply carries data
NoError == LeafError(Undefined, Undefined, Undefined)

\* { message: err.message }: what of an error crosses the thread boundary
ErrorPayload(err) == LeafError(Undefined, Undefined, err.message)

\* a Worker as new Worker(workerPath, {workerData: {poolConfig: {max}}}) creates it
NewThread(max) == [state |-> "starting", cameOnline |-> FALSE, max |-> max, inbox |-> <<>>]

\* getNextWorker() returning the worker at the cursor and leaving the cursor there
getNextWorkerSame == [index |-> currentWorkerIndex + 1, cursor |-> currentWorkerIndex]

\* getNextWorker() as plain round robin: the worker at the cursor, busy or not
getNextWorkerAtCursor ==
  [index |-> currentWorkerIndex + 1, cursor |-> (currentWorkerIndex + 1) % Len(workers)]

\* getNextWorker(): the first idle worker from the cursor on, else the one at the
\* cursor; the cursor ends one past the worker returned
getNextWorker ==
  LET n == Len(workers)
      idle == {k \in 0 .. n - 1 : ~workers[((currentWorkerIndex + k) % n) + 1].isBusy}
      k == IF idle = {} THEN 0 ELSE CHOOSE x \in idle : \A y \in idle : x <= y
  IN [index |-> ((currentWorkerIndex + k) % n) + 1,
      cursor |-> (currentWorkerIndex + k + 1) % n]

\* worker.postMessage(m): queued in the thread's port; lost when the thread is gone
postMessage(th, w, m) ==
  IF th[w].state = "terminated" THEN th ELSE [th EXCEPT ![w].inbox = Append(@, m)]

\* the record `posted` keeps of a message
Sent(m, w) == [type |-> m.type, requestId |-> m.requestId,
               clientId |-> IF m.type = "query" THEN m.clientId ELSE m.payloadClientId,
               worker |-> w]

\* ParallelClient.query with the worker of the round-robin cursor
ProxyWorkerByCursor(client) ==
  IF Len(workers) = 0 THEN client.worker ELSE workers[currentWorkerIndex + 1].threadId

\* ParallelClient.query: this.manager.proxyQueryToWorker(this.worker, this.id, ...)
ProxyWorker(client) == client.worker

\* ensureWorkersInitialized() without its first line: every call spawns maxWorkers workers
ensureWorkersInitializedAgain ==
  IF isShutdown
    THEN UNCHANGED <<initializationPromise, workers, threads>>
    ELSE IF poolConfig.maxWorkers = 0
      THEN /\ initializationPromise' = "resolved"
           /\ UNCHANGED <<workers, threads>>
      ELSE /\ initializationPromise' = "pending"
           /\ workers' = workers \o [i \in 1 .. poolConfig.maxWorkers |->
                                       [threadId |-> Len(threads) + i, isBusy |-> FALSE]]
           /\ threads' = threads \o [i \in 1 .. poolConfig.maxWorkers |->
                                       NewThread(WorkerConfigMax(poolConfig))]

\* ensureWorkersInitialized() reading `maxWorkers || cpus().length`: 0 workers asked,
\* cpus().length workers spawned
ensureWorkersInitializedOrCpus ==
  IF initializationPromise # "null" \/ isShutdown
    THEN UNCHANGED <<initializationPromise, workers, threads>>
    ELSE LET maxWorkers == IF poolConfig.maxWorkers = 0 THEN MaxWorkers
                           ELSE poolConfig.maxWorkers
         IN /\ initializationPromise' = "pending"
            /\ workers' = [i \in 1 .. maxWorkers |-> [threadId |-> i, isBusy |-> FALSE]]
            /\ threads' = [i \in 1 .. maxWorkers |-> NewThread(WorkerConfigMax(poolConfig))]

\* ensureWorkersInitialized(), up to the await inside the async function
ensureWorkersInitialized ==
  IF initializationPromise # "null" \/ isShutdown
    THEN UNCHANGED <<initializationPromise, workers, threads>>
    ELSE IF poolConfig.maxWorkers = 0
      THEN /\ initializationPromise' = "resolved"
           /\ UNCHANGED <<workers, threads>>
      ELSE /\ initializationPromise' = "pending"
           /\ workers' = [i \in 1 .. poolConfig.maxWorkers |-> [threadId |-> i, isBusy |-> FALSE]]
           /\ threads' = [i \in 1 .. poolConfig.maxWorkers |-> NewThread(WorkerConfigMax(poolConfig))]

\* warmup()
Warmup ==
  /\ ensureWorkersInitialized
  /\ UNCHANGED <<poolConfig, localMax, currentWorkerIndex, pendingRequests, isShutdown,
                 shutdownPc, uuids, awaiting, parallelClients, posted, settled>>
  /\ UNCHANGED <<rejections, thrown, ends>>
  /\ UNCHANGED <<handlers, activeClients, releases, replies, handled, failures>>
  /\ UNCHANGED notDispVars

\* task()/worker() without the test of isShutdown
CallEnterUnchecked(call) ==
  /\ Len(awaiting) < MaxAwaiting
  /\ uuids + 2 * (Len(awaiting) + 1) <= MaxUuids
  /\ Len(thrown) + Len(awaiting) < MaxThrown
  /\ ensureWorkersInitialized
  /\ awaiting' = Append(awaiting, call)
  /\ UNCHANGED <<poolConfig, localMax, currentWorkerIndex, pendingRequests, isShutdown,
                 shutdownPc, uuids, parallelClients, posted, settled>>
  /\ UNCHANGED <<rejections, thrown, ends>>
  /\ UNCHANGED <<handlers, activeClients, releases, replies, handled, failures>>
  /\ UNCHANGED notDispVars

\* task()/worker() up to `await this.ensureWorkersInitialized()`
CallEnter(call) ==
  /\ Len(awaiting) < MaxAwaiting
  /\ uuids + 2 * (Len(awaiting) + 1) <= MaxUuids
  /\ Len(thrown) + Len(awaiting) < MaxThrown
  /\ IF isShutdown
       THEN /\ thrown' = Append(thrown, ShutDownError)
            /\ UNCHANGED <<initializationPromise, workers, threads, awaiting>>
       ELSE /\ ensureWorkersInitialized
            /\ awaiting' = Append(awaiting, call)
            /\ UNCHANGED thrown
  /\ UNCHANGED <<poolConfig, localMax, currentWorkerIndex, pendingRequests, isShutdown,
                 shutdownPc, uuids, parallelClients, posted, settled>>
  /\ UNCHANGED <<rejections, ends>>
  /\ UNCHANGED <<handlers, activeClients, releases, replies, handled, failures>>
  /\ UNCHANGED notDispVars

\* task()/worker() after the await: pick a worker, mark it busy, register the request,
\* post it; a postMessage that throws leaves what was done before it
CallDispatch ==
  /\ awaiting # <<>>
  /\ initializationPromise = "resolved"
  /\ awaiting' = Tail(awaiting)
  /\ IF Len(workers) = 0
       THEN /\ thrown' = Append(thrown, NoWorkersError)
            /\ UNCHANGED <<workers, currentWorkerIndex, pendingRequests, uuids, parallelClients,
                           posted, threads, rejections>>
       ELSE LET call == Head(awaiting)
                kind == call.kind
                next == getNextWorker
                w == workers[next.index].threadId
                requestId == uuids + 1
                clientId == IF kind = "workerFn" THEN uuids + 2 ELSE NoId
                m == [type |-> IF kind = "task" THEN "task" ELSE "worker",
                      requestId |-> requestId, clientId |-> NoId,
                      payloadClientId |-> clientId, workerFile |-> kind = "workerFile"]
            IN /\ currentWorkerIndex' = next.cursor
               /\ workers' = [workers EXCEPT ![next.index].isBusy = TRUE]
               /\ uuids' = IF kind = "workerFn" THEN uuids + 2 ELSE uuids + 1
               /\ pendingRequests' = pendingRequests \cup {requestId}
               /\ parallelClients' = IF kind = "workerFn"
                                       THEN parallelClients \cup {[id |-> clientId, worker |-> w]}
                                       ELSE parallelClients
               /\ IF call.cloneable
                    THEN /\ threads' = postMessage(threads, w, m)
                         /\ posted' = posted \cup {Sent(m, w)}
                         /\ UNCHANGED rejections
                    ELSE /\ rejections' = rejections \cup
                              {[requestId |-> requestId, worker |-> w, error |-> DataCloneError]}
                         /\ UNCHANGED <<threads, posted>>
               /\ UNCHANGED thrown
  /\ UNCHANGED <<poolConfig, localMax, initializationPromise, isShutdown, shutdownPc, settled>>
  /\ UNCHANGED ends
  /\ UNCHANGED <<handlers, activeClients, releases, replies, handled, failures>>
  /\ UNCHANGED notDispVars

\* ParallelClient.query -> proxyQueryToWorker(worker, clientId, ...)
proxyQueryToWorker(client) ==
  /\ uuids + 2 * Len(awaiting) < MaxUuids
  /\ LET requestId == uuids + 1
         w == ProxyWorker(client)
         m == [type |-> "query", requestId |-> requestId, clientId |-> client.id,
               payloadClientId |-> NoId, workerFile |-> FALSE]
     IN /\ uuids' = uuids + 1
        /\ pendingRequests' = pendingRequests \cup {requestId}
        /\ threads' = postMessage(threads, w, m)
        /\ posted' = posted \cup {Sent(m, w)}
  /\ UNCHANGED <<poolConfig, localMax, initializationPromise, workers, currentWorkerIndex,
                 isShutdown, shutdownPc, awaiting, parallelClients, settled>>
  /\ UNCHANGED <<rejections, thrown, ends>>
  /\ UNCHANGED <<handlers, activeClients, releases, replies, handled, failures>>
  /\ UNCHANGED notDispVars

\* handleWorkerMessage settling the oldest pending request instead of looking up
\* message.requestId
handleWorkerMessageOldest(message) ==
  /\ message \in replies
  /\ replies' = replies \ {message}
  /\ workers' = [i \in DOMAIN workers |->
                   IF workers[i].threadId = message.workerId
                     THEN [workers[i] EXCEPT !.isBusy = FALSE] ELSE workers[i]]
  /\ IF pendingRequests # {}
       THEN LET oldest == CHOOSE r \in pendingRequests : \A o \in pendingRequests : r <= o
            IN /\ settled' = settled \cup {oldest}
               /\ pendingRequests' = pendingRequests \ {oldest}
               /\ rejections' =
                    IF message.ok THEN rejections
                    ELSE rejections \cup
                           {[requestId |-> oldest, worker |-> message.workerId,
                             error |-> PgParallelError(message.error.message,
                                                       categorizeError(message.error))]}
       ELSE UNCHANGED <<settled, pendingRequests, rejections>>
  /\ UNCHANGED <<poolConfig, localMax, initializationPromise, currentWorkerIndex, isShutdown,
                 shutdownPc, uuids, awaiting, parallelClients, posted>>
  /\ UNCHANGED <<thrown, ends>>
  /\ UNCHANGED <<threads, handlers, activeClients, releases, handled, failures>>
  /\ UNCHANGED notDispVars

\* handleWorkerMessage without `if (!request) return`: a reply settles its request id
\* whether or not the id is pending
handleWorkerMessageNoLookup(message) ==
  /\ message \in replies
  /\ replies' = replies \ {message}
  /\ workers' = [i \in DOMAIN workers |->
                   IF workers[i].threadId = message.workerId
                     THEN [workers[i] EXCEPT !.isBusy = FALSE] ELSE workers[i]]
  /\ settled' = settled \cup {message.requestId}
  /\ pendingRequests' = pendingRequests \ {message.requestId}
  /\ rejections' =
       IF message.ok THEN rejections
       ELSE rejections \cup
              {[requestId |-> message.requestId, worker |-> message.workerId,
                error |-> PgParallelError(message.error.message,
                                          categorizeError(message.error))]}
  /\ UNCHANGED <<poolConfig, localMax, initializationPromise, currentWorkerIndex, isShutdown,
                 shutdownPc, uuids, awaiting, parallelClients, posted>>
  /\ UNCHANGED <<thrown, ends>>
  /\ UNCHANGED <<threads, handlers, activeClients, releases, handled, failures>>
  /\ UNCHANGED notDispVars

\* handleWorkerMessage(message)
handleWorkerMessage(message) ==
  /\ message \in replies
  /\ replies' = replies \ {message}
  /\ workers' = [i \in DOMAIN workers |->
                   IF workers[i].threadId = message.workerId
                     THEN [workers[i] EXCEPT !.isBusy = FALSE] ELSE workers[i]]
  /\ IF message.requestId \in pendingRequests
       THEN /\ settled' = settled \cup {message.requestId}
            /\ pendingRequests' = pendingRequests \ {message.requestId}
            /\ rejections' =
                 IF message.ok THEN rejections
                 ELSE rejections \cup
                        {[requestId |-> message.requestId, worker |-> message.workerId,
                          error |-> PgParallelError(message.error.message,
                                                    categorizeError(message.error))]}
       ELSE UNCHANGED <<settled, pendingRequests, rejections>>
  /\ UNCHANGED <<poolConfig, localMax, initializationPromise, currentWorkerIndex, isShutdown,
                 shutdownPc, uuids, awaiting, parallelClients, posted>>
  /\ UNCHANGED <<thrown, ends>>
  /\ UNCHANGED <<threads, handlers, activeClients, releases, handled, failures>>
  /\ UNCHANGED notDispVars

\* shutdown() without its first line
ShutdownNeverSkips == FALSE

\* shutdown(): if (this.isShutdown) return
ShutdownSkips == isShutdown

\* shutdown() up to `await this.localPool.end()`
ShutdownCall ==
  /\ ends.calls < MaxShutdownCalls
  /\ IF ShutdownSkips
       THEN /\ ends' = [ends EXCEPT !.calls = @ + 1]
            /\ UNCHANGED <<isShutdown, shutdownPc>>
       ELSE /\ isShutdown' = TRUE
            /\ shutdownPc' = "ending"
            /\ ends' = [ends EXCEPT !.calls = @ + 1, !.pool = @ + 1]
  /\ UNCHANGED <<poolConfig, localMax, initializationPromise, workers, currentWorkerIndex,
                 pendingRequests, uuids, awaiting, parallelClients, posted, settled>>
  /\ UNCHANGED <<rejections, thrown>>
  /\ UNCHANGED workerVars
  /\ UNCHANGED notDispVars

\* localPool.end() resolved: worker.terminate() is called on every worker
ShutdownTerminate ==
  /\ shutdownPc = "ending"
  /\ shutdownPc' = "terminating"
  /\ ends' = [ends EXCEPT !.workers =
                [w \in DOMAIN threads |->
                   (IF w \in DOMAIN ends.workers THEN ends.workers[w] ELSE 0)
                   + (IF \E i \in DOMAIN workers : workers[i].threadId = w THEN 1 ELSE 0)]]
  /\ UNCHANGED <<poolConfig, localMax, initializationPromise, workers, currentWorkerIndex,
                 pendingRequests, isShutdown, uuids, awaiting, parallelClients, posted, settled>>
  /\ UNCHANGED <<rejections, thrown>>
  /\ UNCHANGED workerVars
  /\ UNCHANGED notDispVars

\* every terminate() resolved: this.workers = []; shutdown() returns
ShutdownReturn ==
  /\ shutdownPc = "terminating"
  /\ \A w \in DOMAIN threads : threads[w].state = "terminated"
  /\ workers' = <<>>
  /\ shutdownPc' = "returned"
  /\ UNCHANGED <<poolConfig, localMax, initializationPromise, currentWorkerIndex,
                 pendingRequests, isShutdown, uuids, awaiting, parallelClients, posted, settled>>
  /\ UNCHANGED <<rejections, thrown, ends>>
  /\ UNCHANGED workerVars
  /\ UNCHANGED notDispVars

(***************************************************************************)
(* The worker threads: parentPort.on('message', async ...) of pool-worker  *)
(***************************************************************************)
\* the handler instances running in worker w
HandlersOf(w) == {h \in handlers : h.worker = w}

\* clients of worker w's pool that are checked out and not released
CheckedOut(w) == {r \in DOMAIN releases : releases[r].worker = w /\ releases[r].n = 0}

\* a handler instance for message m at position pc, using the client of `session`
Handler(w, m, pc, session) ==
  [worker |-> w, requestId |-> m.requestId, type |-> m.type, clientId |-> m.clientId,
   payloadClientId |-> m.payloadClientId, workerFile |-> m.workerFile, pc |-> pc,
   session |-> session]

\* the driver errors a worker's connect, query or user function fails with in this model
WorkerErrors == {e \in LeafErrors : e.code \in Codes23}

\* a handler's await settles with NoError or with one of the errors
Settlements == {NoError} \cup WorkerErrors

\* throw new Error('Missing clientId for query.')
MissingClientId == LeafError(Undefined, "Error", "Missing clientId for query.")

\* throw new Error(`Query failed: Client ${clientId} not found.`)
ClientNotFound == LeafError(Undefined, "Error", "Query failed: Client not found.")

\* what release() of a client already released throws
ReleaseError ==
  LeafError(Undefined, "Error", "Release called on client which has already been released to the pool.")

\* what the function or query of request r evaluates to: a value of its own
ResultOf(r) == r

\* parentPort.postMessage({requestId, workerId, data}) or
\* ({requestId, workerId, error: {message: err.message}})
Reply(h, err) ==
  [requestId |-> h.requestId, workerId |-> h.worker, ok |-> err = NoError,
   data |-> IF err = NoError THEN ResultOf(h.requestId) ELSE NoId,
   error |-> ErrorPayload(err)]

\* the errors the handlers have caught, with err added unless it is NoError
Failed(h, err) ==
  IF err = NoError THEN failures
  ELSE failures \cup {[requestId |-> h.requestId, error |-> err]}

\* the entries of activeClients the catch block finds under the message's clientId
Caught(w, clientId) ==
  {a \in activeClients : a.worker = w /\ a.clientId = clientId /\ clientId # NoId}

\* catch: if (clientId && activeClients.has(clientId)) { client.release(); delete }
ReleasedInCatch(w, clientId) ==
  [r \in DOMAIN releases |->
     IF \E a \in Caught(w, clientId) : a.session = r
       THEN [releases[r] EXCEPT !.n = @ + 1] ELSE releases[r]]

\* the thread runs the worker script: 'online' fires; Promise.all settles on the last one
WorkerOnline(w) ==
  /\ w \in DOMAIN threads
  /\ threads[w].state = "starting"
  /\ threads' = [threads EXCEPT ![w].state = "online", ![w].cameOnline = TRUE]
  /\ initializationPromise' =
       IF \A v \in DOMAIN threads : v = w \/ threads[v].cameOnline
         THEN "resolved" ELSE initializationPromise
  /\ UNCHANGED <<poolConfig, localMax, workers, currentWorkerIndex, pendingRequests, isShutdown,
                 shutdownPc, uuids, awaiting, parallelClients, posted, settled>>
  /\ UNCHANGED <<rejections, thrown, ends>>
  /\ UNCHANGED <<handlers, activeClients, releases, replies, handled, failures>>
  /\ UNCHANGED notDispVars

\* worker.terminate() takes effect: the thread, its handlers and its port are gone;
\* replies it had posted may or may not still be delivered
WorkerExit(w, delivered) ==
  /\ shutdownPc = "terminating"
  /\ w \in DOMAIN threads
  /\ threads[w].state # "terminated"
  /\ threads' = [threads EXCEPT ![w].state = "terminated", ![w].inbox = <<>>]
  /\ handlers' = handlers \ HandlersOf(w)
  /\ activeClients' = {a \in activeClients : a.worker # w}
  /\ replies' = IF delivered THEN replies ELSE {m \in replies : m.workerId # w}
  /\ UNCHANGED <<releases, handled, failures>>
  /\ UNCHANGED mainVars
  /\ UNCHANGED notDispVars

\* the handler starts on the next message and runs to its first await
WorkerReceive(w) ==
  /\ w \in DOMAIN threads
  /\ threads[w].state = "online"
  /\ threads[w].inbox # <<>>
  /\ threads' = [threads EXCEPT ![w].inbox = Tail(@)]
  /\ LET m == Head(threads[w].inbox)
         found == Caught(w, m.clientId)
         h == Handler(w, m, "query", NoId)
         err == IF m.clientId = NoId THEN MissingClientId ELSE ClientNotFound
     IN CASE m.type = "worker" ->
               /\ handlers' = handlers \cup {Handler(w, m, "connect", NoId)}
               /\ UNCHANGED <<replies, handled, failures>>
          [] m.type = "task" ->
               /\ handlers' = handlers \cup {Handler(w, m, "run", NoId)}
               /\ UNCHANGED <<replies, handled, failures>>
          [] m.type = "query" /\ found # {} ->
               /\ handlers' = handlers \cup
                    {Handler(w, m, "query", (CHOOSE a \in found : TRUE).session)}
               /\ UNCHANGED <<replies, handled, failures>>
          [] OTHER ->
               \* Missing clientId / Client not found: thrown and caught at once
               /\ replies' = replies \cup {Reply(h, err)}
               /\ failures' = Failed(h, err)
               /\ handled' = handled \cup {m.requestId}
               /\ UNCHANGED handlers
  /\ UNCHANGED <<activeClients, releases>>
  /\ UNCHANGED mainVars
  /\ UNCHANGED notDispVars

\* `await pool.connect()` settles: the client is checked out (and registered under
\* payload.clientId), or the error is caught and posted
WorkerConnectDone(h, err) ==
  /\ h \in handlers
  /\ h.pc = "connect"
  /\ IF err = NoError
       THEN /\ Cardinality(CheckedOut(h.worker)) < threads[h.worker].max
            /\ releases' = [releases EXCEPT ![h.requestId] = [worker |-> h.worker, n |-> 0]]
            /\ activeClients' =
                 IF ~h.workerFile /\ h.payloadClientId # NoId
                   THEN activeClients \cup {[worker |-> h.worker, clientId |-> h.payloadClientId,
                                             session |-> h.requestId]}
                   ELSE activeClients
            /\ handlers' = (handlers \ {h}) \cup {[h EXCEPT !.pc = "body", !.session = h.requestId]}
            /\ UNCHANGED <<replies, handled, failures>>
       ELSE /\ replies' = replies \cup {Reply(h, err)}
            /\ failures' = Failed(h, err)
            /\ releases' = ReleasedInCatch(h.worker, h.clientId)
            /\ activeClients' = activeClients \ Caught(h.worker, h.clientId)
            /\ handlers' = handlers \ {h}
            /\ handled' = handled \cup {h.requestId}
  /\ UNCHANGED threads
  /\ UNCHANGED mainVars
  /\ UNCHANGED notDispVars

\* the session body settles: finally { client.release(); activeClients.delete(...) },
\* then the result or the error is posted; a release() of a client already released
\* may throw out of the finally block
WorkerBodyDone(h, err, releaseThrows) ==
  /\ h \in handlers
  /\ h.pc = "body"
  /\ releaseThrows => releases[h.requestId].n > 0
  /\ releases' = [releases EXCEPT ![h.requestId].n = @ + 1]
  /\ activeClients' =
       IF releaseThrows THEN activeClients
       ELSE {a \in activeClients : ~(a.worker = h.worker /\ a.clientId = h.payloadClientId)}
  /\ LET caught == IF releaseThrows THEN ReleaseError ELSE err
     IN /\ replies' = replies \cup {Reply(h, caught)}
        /\ failures' = Failed(h, caught)
  /\ handlers' = handlers \ {h}
  /\ handled' = handled \cup {h.requestId}
  /\ UNCHANGED threads
  /\ UNCHANGED mainVars
  /\ UNCHANGED notDispVars

\* a proxied client.query settles: the rows are posted, or the error is posted and the
\* catch block releases the client found under the message's clientId
WorkerQueryDone(h, err) ==
  /\ h \in handlers
  /\ h.pc = "query"
  /\ replies' = replies \cup {Reply(h, err)}
  /\ failures' = Failed(h, err)
  /\ releases' = IF err = NoError THEN releases ELSE ReleasedInCatch(h.worker, h.clientId)
  /\ activeClients' = IF err = NoError THEN activeClients
                      ELSE activeClients \ Caught(h.worker, h.clientId)
  /\ handlers' = handlers \ {h}
  /\ handled' = handled \cup {h.requestId}
  /\ UNCHANGED threads
  /\ UNCHANGED mainVars
  /\ UNCHANGED notDispVars

\* the task function settles
WorkerTaskDone(h, err) ==
  /\ h \in handlers
  /\ h.pc = "run"
  /\ replies' = replies \cup {Reply(h, err)}
  /\ failures' = Failed(h, err)
  /\ handlers' = handlers \ {h}
  /\ handled' = handled \cup {h.requestId}
  /\ UNCHANGED <<threads, activeClients, releases>>
  /\ UNCHANGED mainVars
  /\ UNCHANGED notDispVars

(***************************************************************************)
(* The worker script with resilience: connect and query run under          *)
(* executeWithBreakerAndRetry; retry is not configured (retry: null)       *)
(***************************************************************************)
\* throw new Error('Worker circuit breaker is open')
WorkerBreakerOpen == LeafError(Undefined, "Error", "Worker circuit breaker is open")

\* throw new Error('Circuit breaker trial limit reached')
TrialLimitReached == LeafError(Undefined, "Error", "Circuit breaker trial limit reached")

\* worker w's breaker is OPEN and less than the cooldown has elapsed
WorkerInOpenWindow(w) ==
  /\ workerBreaker[w].state = "OPEN"
  /\ now - workerBreaker[w].openedAt < getCircuitBreakerConfig.cooldownMs

\* the handler without the lookup of the client: every query message goes on to
\* executeWithBreakerAndRetry
GuardedReceiveNoLookup(w) ==
  /\ w \in DOMAIN threads
  /\ threads[w].state = "online"
  /\ threads[w].inbox # <<>>
  /\ threads' = [threads EXCEPT ![w].inbox = Tail(@)]
  /\ LET m == Head(threads[w].inbox)
         found == Caught(w, m.clientId)
         session == IF found = {} THEN NoId ELSE (CHOOSE a \in found : TRUE).session
         h == Handler(w, m, "entered", session)
         b1 == ensureBreakerState(workerBreaker[w], getCircuitBreakerConfig)
     IN CASE m.type = "task" ->
               /\ handlers' = handlers \cup {Handler(w, m, "run", NoId)}
               /\ UNCHANGED <<replies, handled, failures, activeClients, releases,
                              workerBreaker>>
          [] OTHER ->
               IF trialLimitReached(b1)
                 THEN /\ workerBreaker' = [workerBreaker EXCEPT ![w] = b1]
                      /\ replies' = replies \cup {Reply(h, TrialLimitReached)}
                      /\ failures' = Failed(h, TrialLimitReached)
                      /\ releases' = ReleasedInCatch(w, m.clientId)
                      /\ activeClients' = activeClients \ found
                      /\ handled' = handled \cup {m.requestId}
                      /\ UNCHANGED handlers
                 ELSE /\ workerBreaker' = [workerBreaker EXCEPT ![w] = takePermit(b1)]
                      /\ handlers' = handlers \cup {h}
                      /\ UNCHANGED <<replies, handled, failures, activeClients, releases>>
  /\ UNCHANGED mainVars
  /\ UNCHANGED notGuardVars

\* the handler starts on the next message; for a session start and for a query on a
\* known client it runs ensureBreakerState() and suspends at the await
GuardedReceive(w) ==
  /\ w \in DOMAIN threads
  /\ threads[w].state = "online"
  /\ threads[w].inbox # <<>>
  /\ threads' = [threads EXCEPT ![w].inbox = Tail(@)]
  /\ LET m == Head(threads[w].inbox)
         found == Caught(w, m.clientId)
         session == IF found = {} THEN NoId ELSE (CHOOSE a \in found : TRUE).session
         h == Handler(w, m, "entered", session)
         b1 == ensureBreakerState(workerBreaker[w], getCircuitBreakerConfig)
         err == IF m.clientId = NoId THEN MissingClientId ELSE ClientNotFound
     IN CASE m.type = "task" ->
               /\ handlers' = handlers \cup {Handler(w, m, "run", NoId)}
               /\ UNCHANGED <<replies, handled, failures, activeClients, releases,
                              workerBreaker>>
          [] m.type = "query" /\ found = {} ->
               /\ replies' = replies \cup {Reply(h, err)}
               /\ failures' = Failed(h, err)
               /\ handled' = handled \cup {m.requestId}
               /\ UNCHANGED <<handlers, activeClients, releases, workerBreaker>>
          [] OTHER ->
               IF trialLimitReached(b1)
                 THEN /\ workerBreaker' = [workerBreaker EXCEPT ![w] = b1]
                      /\ replies' = replies \cup {Reply(h, TrialLimitReached)}
                      /\ failures' = Failed(h, TrialLimitReached)
                      /\ releases' = ReleasedInCatch(w, m.clientId)
                      /\ activeClients' = activeClients \ found
                      /\ handled' = handled \cup {m.requestId}
                      /\ UNCHANGED handlers
                 ELSE /\ workerBreaker' = [workerBreaker EXCEPT ![w] = takePermit(b1)]
                      /\ handlers' = handlers \cup {h}
                      /\ UNCHANGED <<replies, handled, failures, activeClients, releases>>
  /\ UNCHANGED mainVars
  /\ UNCHANGED notGuardVars

\* after the await: if (breakerState.state === 'OPEN') throw; otherwise pool.connect()
\* or client.query() is called
GuardedCheck(h) ==
  /\ h \in handlers
  /\ h.pc = "entered"
  /\ IF workerBreaker[h.worker].state = "OPEN"
       THEN /\ replies' = replies \cup {Reply(h, WorkerBreakerOpen)}
            /\ failures' = Failed(h, WorkerBreakerOpen)
            /\ releases' = ReleasedInCatch(h.worker, h.clientId)
            /\ activeClients' = activeClients \ Caught(h.worker, h.clientId)
            /\ handlers' = handlers \ {h}
            /\ handled' = handled \cup {h.requestId}
       ELSE /\ handlers' = (handlers \ {h}) \cup
                 {[h EXCEPT !.pc = IF h.type = "worker" THEN "connect" ELSE "query"]}
            /\ UNCHANGED <<replies, failures, releases, activeClients, handled>>
  /\ UNCHANGED <<threads, workerBreaker>>
  /\ UNCHANGED mainVars
  /\ UNCHANGED notGuardVars

\* what execOnce does to worker w's breaker when the protected call settles with err
GuardedOutcome(w, err) ==
  workerBreaker' = [workerBreaker EXCEPT ![w] =
    IF err = NoError THEN onBreakerSuccess(@, getCircuitBreakerConfig)
    ELSE onBreakerFailure(@, getCircuitBreakerConfig)]

\* `await connectClient()` settles
GuardedConnectDone(h, err) ==
  /\ h \in handlers
  /\ h.pc = "connect"
  /\ now + MaxCooldown <= MaxTime
  /\ GuardedOutcome(h.worker, err)
  /\ IF err = NoError
       THEN /\ Cardinality(CheckedOut(h.worker)) < threads[h.worker].max
            /\ releases' = [releases EXCEPT ![h.requestId] = [worker |-> h.worker, n |-> 0]]
            /\ activeClients' =
                 IF ~h.workerFile /\ h.payloadClientId # NoId
                   THEN activeClients \cup {[worker |-> h.worker, clientId |-> h.payloadClientId,
                                             session |-> h.requestId]}
                   ELSE activeClients
            /\ handlers' = (handlers \ {h}) \cup {[h EXCEPT !.pc = "body", !.session = h.requestId]}
            /\ UNCHANGED <<replies, handled, failures>>
       ELSE /\ replies' = replies \cup {Reply(h, err)}
            /\ failures' = Failed(h, err)
            /\ releases' = ReleasedInCatch(h.worker, h.clientId)
            /\ activeClients' = activeClients \ Caught(h.worker, h.clientId)
            /\ handlers' = handlers \ {h}
            /\ handled' = handled \cup {h.requestId}
  /\ UNCHANGED threads
  /\ UNCHANGED mainVars
  /\ UNCHANGED notGuardVars

\* the protected client.query of a 'query' message settles
GuardedQueryDone(h, err) ==
  /\ h \in handlers
  /\ h.pc = "query"
  /\ now + MaxCooldown <= MaxTime
  /\ GuardedOutcome(h.worker, err)
  /\ replies' = replies \cup {Reply(h, err)}
  /\ failures' = Failed(h, err)
  /\ releases' = IF err = NoError THEN releases ELSE ReleasedInCatch(h.worker, h.clientId)
  /\ activeClients' = IF err = NoError THEN activeClients
                      ELSE activeClients \ Caught(h.worker, h.clientId)
  /\ handlers' = handlers \ {h}
  /\ handled' = handled \cup {h.requestId}
  /\ UNCHANGED threads
  /\ UNCHANGED mainVars
  /\ UNCHANGED notGuardVars

(***************************************************************************)
(* BudgetSpec: construction and worker initialisation for every budget     *)
(***************************************************************************)
BudgetConfigs == [max : {Absent} \cup (1 .. MaxBudget), maxWorkers : 0 .. MaxBudgetWorkers]

BudgetInit ==
  /\ paths = NoPaths
  /\ ResInit
  /\ config = [retry |-> NoRetry, circuitBreaker |-> NoBreakerConfig]
  /\ bo = BoIdle
  /\ wrapping = NoWrap
  /\ log = NoLogger
  /\ poolConfig \in BudgetConfigs
  /\ DispInit

BudgetNext ==
  \/ Warmup
  \/ \E w \in 1 .. MaxBudgetWorkers : WorkerOnline(w)

BudgetSpec == BudgetInit /\ [][BudgetNext]_vars

(***************************************************************************)
(* DispatchSpec: the dispatcher and its workers                            *)
(***************************************************************************)
DispatchConfigs == [max : {MaxWorkers}, maxWorkers : 0 .. MaxWorkers]

DispatchInit ==
  /\ paths = NoPaths
  /\ ResInit
  /\ config = [retry |-> NoRetry, circuitBreaker |-> NoBreakerConfig]
  /\ bo = BoIdle
  /\ wrapping = NoWrap
  /\ log = NoLogger
  /\ poolConfig \in DispatchConfigs
  /\ DispInit

DispatchNext ==
  \/ Warmup
  \/ \E call \in Calls : CallEnter(call)
  \/ CallDispatch
  \/ \E client \in parallelClients : proxyQueryToWorker(client)
  \/ \E message \in replies : handleWorkerMessage(message)
  \/ ShutdownCall
  \/ ShutdownTerminate
  \/ ShutdownReturn
  \/ \E w \in 1 .. MaxWorkers : WorkerOnline(w)
  \/ \E w \in 1 .. MaxWorkers, delivered \in BOOLEAN : WorkerExit(w, delivered)
  \/ \E w \in 1 .. MaxWorkers : WorkerReceive(w)
  \/ \E h \in handlers, err \in Settlements : WorkerConnectDone(h, err)
  \/ \E h \in handlers, err \in Settlements, releaseThrows \in BOOLEAN :
       WorkerBodyDone(h, err, releaseThrows)
  \/ \E h \in handlers, err \in Settlements : WorkerQueryDone(h, err)
  \/ \E h \in handlers, err \in Settlements : WorkerTaskDone(h, err)

DispatchSpec == DispatchInit /\ [][DispatchNext]_vars

(***************************************************************************)
(* LocalSpec: a dispatcher with maxWorkers = 0 and no retry: query() on    *)
(* the local pool under the breaker, warmup(), task()/worker(), shutdown() *)
(***************************************************************************)
\* the error the local pool rejects with while it is not ended
LocalPoolErrors == {LeafError("23505", "error", "duplicate key value")}

\* task(fn, args) and worker(fn)
LocalCalls == {c \in Calls : c.kind \in {"task", "workerFn"} /\ c.cloneable}

LocalInit ==
  /\ paths = NoPaths
  /\ ResInit
  /\ config \in [retry : {NoRetry},
                circuitBreaker : {c \in BreakerConfigs :
                                    c.halfOpenMaxCalls = 1 /\ c.halfOpenSuccessesToClose = 1}]
  /\ bo = BoIdle
  /\ wrapping = NoWrap
  /\ log = NoLogger
  /\ poolConfig = NoWorkersConfig
  /\ DispInit

LocalNext ==
  \/ Tick
  \/ \E q \in Queries : QueryEnter(q)
  \/ \E q \in Queries : QueryCheck(q)
  \/ \E q \in Queries : PoolSucceed(q)
  \/ \E q \in Queries, e \in LocalPoolErrors \cup {PoolClosedError} : PoolFail(q, e)
  \/ \E q \in Queries : QueryReturn(q)
  \/ Warmup
  \/ \E call \in LocalCalls : CallEnter(call)
  \/ CallDispatch
  \/ ShutdownCall
  \/ ShutdownTerminate
  \/ ShutdownReturn

LocalSpec == LocalInit /\ [][LocalNext]_vars

(***************************************************************************)
(* GuardSpec: one worker running the script with resilience, sessions and  *)
(* their proxied queries                                                   *)
(***************************************************************************)
GuardBreakerConfigs ==
  {c \in BreakerConfigs : c.failureThreshold = 1 /\ c.halfOpenMaxCalls = 1
                            /\ c.halfOpenSuccessesToClose = 1}

\* worker(fn)
GuardCalls == {c \in Calls : c.kind = "workerFn"}

GuardInit ==
  /\ paths = NoPaths
  /\ ResInit
  /\ config \in [retry : {NoRetry}, circuitBreaker : GuardBreakerConfigs]
  /\ bo = BoIdle
  /\ wrapping = NoWrap
  /\ log = NoLogger
  /\ poolConfig = [max |-> MaxWorkers, maxWorkers |-> 1]
  /\ DispInit

GuardNext ==
  \/ Tick
  \/ \E call \in GuardCalls : CallEnter(call)
  \/ CallDispatch
  \/ \E client \in parallelClients : proxyQueryToWorker(client)
  \/ \E message \in replies : handleWorkerMessage(message)
  \/ \E w \in 1 .. MaxWorkers : WorkerOnline(w)
  \/ \E w \in 1 .. MaxWorkers : GuardedReceive(w)
  \/ \E h \in handlers : GuardedCheck(h)
  \/ \E h \in handlers, err \in Settlements : GuardedConnectDone(h, err)
  \/ \E h \in handlers, err \in Settlements, releaseThrows \in BOOLEAN :
       WorkerBodyDone(h, err, releaseThrows)
  \/ \E h \in handlers, err \in Settlements : GuardedQueryDone(h, err)

GuardSpec == GuardInit /\ [][GuardNext]_vars

(***************************************************************************)
(* WrapSpec: wrapError and categorizeError on one error value              *)
(***************************************************************************)
\* err.name of the values drawn
ErrorNames == {Undefined, "Error", "SequelizeConnectionError"}

\* every combination of code, name and message, an AggregateError around each (with its
\* own code), an AggregateError around that, and an AggregateError with no sub-error
WrapInputs ==
  LET leaves == {LeafError(c, n, msg) : c \in Codes, n \in ErrorNames,
                                        msg \in Messages \cup {Undefined}}
      nested == {[AggregateOf(e) EXCEPT !.code = c] : e \in leaves, c \in {Undefined, "23505"}}
  IN leaves \cup nested \cup {AggregateOf(a) : a \in nested}
       \cup {[code |-> Undefined, name |-> "AggregateError", message |-> "timeout",
              errors |-> <<>>, wrapped |-> FALSE, category |-> Undefined]}

WrapInit ==
  /\ paths = NoPaths
  /\ ResInit
  /\ config = [retry |-> NoRetry, circuitBreaker |-> NoBreakerConfig]
  /\ bo = BoIdle
  /\ poolConfig = NoWorkersConfig
  /\ DispInit
  /\ log = NoLogger
  /\ wrapping \in {[NoWrap EXCEPT !.pc = "caught", !.error = e] : e \in WrapInputs}

\* wrapped = wrapError(error)
Wrap ==
  /\ wrapping.pc = "caught"
  /\ wrapping' = [wrapping EXCEPT !.pc = "wrapped", !.wrapped = wrapError(wrapping.error)]
  /\ UNCHANGED notWrapVars

\* category = categorizeError(wrapped)
Categorize ==
  /\ wrapping.pc = "wrapped"
  /\ wrapping' = [wrapping EXCEPT !.pc = "categorized",
                                  !.category = categorizeError(wrapping.wrapped)]
  /\ UNCHANGED notWrapVars

WrapNext == Wrap \/ Categorize

WrapSpec == WrapInit /\ [][WrapNext]_vars

(***************************************************************************)
(* ClassifySpec: every classifier and every retry predicate of the         *)
(* repository applied to one error value                                   *)
(***************************************************************************)
\* nothing computed yet
NoVerdicts == [dispatcher |-> Undefined, utils |-> Undefined, table |-> Undefined,
               worker |-> Undefined]

ClassifyInit ==
  /\ paths = NoPaths
  /\ ResInit
  /\ config = [retry |-> NoRetry, circuitBreaker |-> NoBreakerConfig]
  /\ bo = BoIdle
  /\ poolConfig = NoWorkersConfig
  /\ DispInit
  /\ log = NoLogger
  /\ wrapping \in {[pc |-> "caught", error |-> e, category |-> NoVerdicts,
                    transient |-> NoVerdicts] : e \in WrapInputs}

\* the three classifiers on the error
CategorizeAll ==
  /\ wrapping.pc = "caught"
  /\ wrapping' = [wrapping EXCEPT !.pc = "categorized",
                    !.category = [NoVerdicts EXCEPT
                                    !.dispatcher = categorizeError(wrapping.error),
                                    !.utils = categorizeErrorUtils(wrapping.error),
                                    !.table = categorizeErrorTable(wrapping.error)]]
  /\ UNCHANGED notWrapVars

\* the retry predicates on the error (ErrorUtils' first version is the dispatcher's text)
TransientAll ==
  /\ wrapping.pc = "categorized"
  /\ wrapping' = [wrapping EXCEPT !.pc = "decided",
                    !.transient = [NoVerdicts EXCEPT
                                     !.dispatcher = isTransient(wrapping.error),
                                     !.utils = categorizeErrorUtils(wrapping.error)
                                                 \in TransientCategories,
                                     !.table = isTransientOptimized(wrapping.error),
                                     !.worker = isTransientWorker(wrapping.error)]]
  /\ UNCHANGED notWrapVars

ClassifyNext == CategorizeAll \/ TransientAll

ClassifySpec == ClassifyInit /\ [][ClassifyNext]_vars

(***************************************************************************)
(* FastPathSpec: the manager with CircuitBreakerUtils whose                *)
(* executeWithBreakerAndRetry branches to executeFastPath, next to the     *)
(* same manager without that branch; both receive the same calls at the    *)
(* same moments and the same outcome of every operation; retry: null       *)
(***************************************************************************)
\* if (this.breakerState.state === 'CLOSED' && this.breakerState.consecutiveFailures === 0)
takesFastPath(b) == b.state = "CLOSED" /\ b.consecutiveFailures = 0

\* await CircuitBreakerUtils.ensureBreakerState(...): the function body runs at the call
\* (it throws at the trial limit), then the caller is suspended at the await
StandardEnter(m, c, cfg) ==
  LET b1 == ensureBreakerState(m.b, cfg)
  IN IF trialLimitReached(b1)
       THEN [m EXCEPT !.b = b1,
                      !.calls[c] = [pc |-> "done", fast |-> FALSE,
                                    result |-> "Circuit breaker trial limit reached"]]
       ELSE [m EXCEPT !.b = takePermit(b1),
                      !.calls[c] = [pc |-> "entered", fast |-> FALSE, result |-> "none"]]

\* after the await: if (this.breakerState.state === 'OPEN') throw ...; else execOnce()
StandardResume(m, c) ==
  IF m.b.state = "OPEN"
    THEN [m EXCEPT !.calls[c] = [@ EXCEPT !.pc = "done", !.result = "Circuit breaker is open"]]
    ELSE [m EXCEPT !.calls[c] = [@ EXCEPT !.pc = "calling"]]

\* executeFastPath: execOnce() invokes the operation within the call itself
executeFastPath(m, c) ==
  [m EXCEPT !.calls[c] = [pc |-> "calling", fast |-> TRUE, result |-> "none"]]

\* executeWithBreakerAndRetry of the manager with the fast path
EnterWithFastPath(m, c, cfg) ==
  IF takesFastPath(m.b) THEN executeFastPath(m, c) ELSE StandardEnter(m, c, cfg)

\* execOnce, the operation resolved: the standard path calls onBreakerSuccess(), the
\* fast path only if (this.breakerState.consecutiveFailures > 0)
execOnceResolved(m, c, cfg) ==
  [m EXCEPT !.b = IF m.calls[c].fast /\ ~(m.b.consecutiveFailures > 0)
                    THEN @ ELSE onBreakerSuccess(@, cfg),
            !.calls[c] = [@ EXCEPT !.pc = "done", !.result = "ok"]]

\* execOnce, the operation rejected: onBreakerFailure(); throw ErrorUtils.wrapError(error)
execOnceRejected(m, c, cfg) ==
  [m EXCEPT !.b = onBreakerFailure(@, cfg),
            !.calls[c] = [@ EXCEPT !.pc = "done", !.result = "error"]]

\* some other call is suspended at its await of ensureBreakerState
OtherSuspended(c) ==
  \E d \in Callers \ {c} :
    paths.standard.calls[d].pc = "entered" \/ paths.fast.calls[d].pc = "entered"

FastPathInit ==
  /\ ResInit
  /\ paths = NoPaths
  /\ config \in [retry : {NoRetry}, circuitBreaker : BreakerConfigs]
  /\ bo = BoIdle
  /\ wrapping = NoWrap
  /\ log = NoLogger
  /\ poolConfig = NoWorkersConfig
  /\ DispInit

\* query() is called on both managers; callers are interchangeable, so a new call is
\* given the lowest free caller
PathCall(c) ==
  /\ paths.standard.calls[c].pc = "idle"
  /\ paths.fast.calls[c].pc = "idle"
  /\ \A d \in 1 .. c - 1 : paths.standard.calls[d].pc # "idle"
  /\ paths.issued < MaxCalls
  /\ paths' = [standard |-> StandardEnter(paths.standard, c, getCircuitBreakerConfig),
               fast |-> EnterWithFastPath(paths.fast, c, getCircuitBreakerConfig),
               raced |-> paths.raced \/ OtherSuspended(c),
               issued |-> paths.issued + 1]
  /\ UNCHANGED <<resVars, boVars, dispVars, guardVars, wrapVars>>

\* the continuation of a call suspended at await ensureBreakerState runs
PathResume(c) ==
  /\ paths.standard.calls[c].pc = "entered" \/ paths.fast.calls[c].pc = "entered"
  /\ paths' = [paths EXCEPT
                 !.standard = IF @.calls[c].pc = "entered" THEN StandardResume(@, c) ELSE @,
                 !.fast = IF @.calls[c].pc = "entered" THEN StandardResume(@, c) ELSE @]
  /\ UNCHANGED <<resVars, boVars, dispVars, guardVars, wrapVars>>

\* the operation of call c settles, the same way on both managers (a manager that
\* rejected the call before execOnce has no operation to settle)
PathSettle(c, ok) ==
  /\ paths.standard.calls[c].pc = "calling" \/ paths.fast.calls[c].pc = "calling"
  /\ paths.standard.calls[c].pc \in {"calling", "done"}
  /\ paths.fast.calls[c].pc \in {"calling", "done"}
  /\ ok \/ /\ paths.standard.b.consecutiveFailures < MaxFailures
           /\ paths.fast.b.consecutiveFailures < MaxFailures
           /\ now + MaxCooldown <= MaxTime
  /\ LET cfg == getCircuitBreakerConfig
         settle(m) == IF m.calls[c].pc # "calling" THEN m
                      ELSE IF ok THEN execOnceResolved(m, c, cfg)
                      ELSE execOnceRejected(m, c, cfg)
     IN paths' = [paths EXCEPT !.standard = settle(@), !.fast = settle(@),
                               !.raced = @ \/ OtherSuspended(c)]
  /\ UNCHANGED <<resVars, boVars, dispVars, guardVars, wrapVars>>

\* the caller has the outcome of call c from both managers
PathReturn(c) ==
  /\ paths.standard.calls[c].pc = "done"
  /\ paths.fast.calls[c].pc = "done"
  /\ paths' = [paths EXCEPT !.standard.calls[c] = IdleCall, !.fast.calls[c] = IdleCall]
  /\ UNCHANGED <<resVars, boVars, dispVars, guardVars, wrapVars>>

FastPathNext ==
  \/ Tick
  \/ \E c \in Callers : PathCall(c)
  \/ \E c \in Callers : PathResume(c)
  \/ \E c \in Callers, ok \in BOOLEAN : PathSettle(c, ok)
  \/ \E c \in Callers : PathReturn(c)

FastPathSpec == FastPathInit /\ [][FastPathNext]_vars

(***************************************************************************)
(* LogSpec: query() under retry and breaker with a logger attached         *)
(***************************************************************************)
LogInit ==
  /\ paths = NoPaths
  /\ ResInit
  /\ config \in [retry : {c \in RetryConfigs : c.maxAttempts = 2 /\ c.initialDelayMs = 1},
                circuitBreaker : {c \in BreakerConfigs : c.halfOpenMaxCalls = 2}]
  /\ bo = BoIdle
  /\ wrapping = NoWrap
  /\ log = Logger
  /\ poolConfig = NoWorkersConfig
  /\ DispInit

LogSpec == LogInit /\ [][Next]_vars

(***************************************************************************)
(* LazySpec: a dispatcher with maxWorkers > 0: query() on the local pool,  *)
(* warmup(), task()/worker() up to their dispatch, the workers coming      *)
(* online                                                                  *)
(***************************************************************************)
LazyConfigs == {c \in DispatchConfigs : c.maxWorkers > 0}

LazyInit ==
  /\ paths = NoPaths
  /\ ResInit
  /\ config = [retry |-> NoRetry, circuitBreaker |-> NoBreakerConfig]
  /\ bo = BoIdle
  /\ wrapping = NoWrap
  /\ log = NoLogger
  /\ poolConfig \in LazyConfigs
  /\ DispInit

LazyNext ==
  \/ \E q \in Queries : QueryEnter(q)
  \/ \E q \in Queries : QueryCheck(q)
  \/ \E q \in Queries : PoolSucceed(q)
  \/ \E q \in Queries, e \in LocalPoolErrors : PoolFail(q, e)
  \/ \E q \in Queries : QueryReturn(q)
  \/ Warmup
  \/ \E call \in LocalCalls : CallEnter(call)
  \/ CallDispatch
  \/ \E w \in 1 .. MaxWorkers : WorkerOnline(w)

LazySpec == LazyInit /\ [][LazyNext]_vars

(***************************************************************************)
(* FairDispatchSpec: DispatchSpec under fair scheduling: the event loops   *)
(* of the main thread and of every worker run what is ready, every awaited *)
(* promise of a worker settles, and terminate() takes effect; the calls    *)
(* of the user (warmup, task, worker, client.query, shutdown) are not      *)
(* forced                                                                  *)
(***************************************************************************)
DispatchFairness ==
  /\ WF_vars(CallDispatch)
  /\ WF_vars(\E message \in replies : handleWorkerMessage(message))
  /\ WF_vars(ShutdownTerminate)
  /\ WF_vars(ShutdownReturn)
  /\ WF_vars(\E w \in 1 .. MaxWorkers : WorkerOnline(w))
  /\ WF_vars(\E w \in 1 .. MaxWorkers, delivered \in BOOLEAN : WorkerExit(w, delivered))
  /\ WF_vars(\E w \in 1 .. MaxWorkers : WorkerReceive(w))
  /\ SF_vars(\E h \in handlers, err \in Settlements : WorkerConnectDone(h, err))
  /\ WF_vars(\E h \in handlers, err \in Settlements, releaseThrows \in BOOLEAN :
               WorkerBodyDone(h, err, releaseThrows))
  /\ WF_vars(\E h \in handlers, err \in Settlements : WorkerQueryDone(h, err))
  /\ WF_vars(\E h \in handlers, err \in Settlements : WorkerTaskDone(h, err))

\* one worker
FairDispatchInit == DispatchInit /\ poolConfig.maxWorkers = 1

FairDispatchSpec == FairDispatchInit /\ [][DispatchNext]_vars /\ DispatchFairness

(***************************************************************************)
(* ReplySpec: the dispatcher with one worker whose 'message' listener is   *)
(* also handed messages that answer none of its requests, as the test that *)
(* calls handleWorkerMessage directly does                                 *)
(***************************************************************************)
\* a workerId that is the threadId of no slot ('123' in the test)
StrayWorker == MaxWorkers + 1

\* { requestId, workerId: '123', error: { message } } for the first request id: unknown
\* before the first request is registered, pending then, settled after its first reply
StrayMessages ==
  {[requestId |-> 1, workerId |-> StrayWorker, ok |-> FALSE, data |-> NoId,
    error |-> ErrorPayload(MissingClientId)]}

\* worker.on('message', ...) fires with such a message, while shutdown() was not called
StrayReply(message) ==
  /\ message \notin replies
  /\ shutdownPc = "none"
  /\ replies' = replies \cup {message}
  /\ UNCHANGED <<threads, handlers, activeClients, releases, handled, failures>>
  /\ UNCHANGED mainVars
  /\ UNCHANGED notDispVars

ReplyNext ==
  \/ DispatchNext
  \/ \E message \in StrayMessages : StrayReply(message)

ReplySpec == FairDispatchInit /\ [][ReplyNext]_vars

(***************************************************************************)
(* Claims                                                                  *)
(***************************************************************************)
\* C1 (as claimed): while the breaker is OPEN and less than the cooldown has
\* elapsed, no attempt starts the underlying pool query, and every query()
\* issued in that window is rejected with 'Circuit breaker is open'.
C1_BreakerSafety ==
  [][ /\ InOpenWindow =>
           \A q \in Queries : ~(qs[q].pc # "calling" /\ qs'[q].pc = "calling")
      /\ \A q \in Queries :
           (qs[q].pc = "entered" /\ qs[q].inWindow /\ qs'[q] # qs[q]) =>
             (qs'[q].pc = "done" /\ qs'[q].result.message = "Circuit breaker is open")
    ]_vars

\* C5 (as claimed): with a retry config and the default predicate, a failure
\* whose category is transient is retried while attempts remain, and a failure
\* of any other category is surfaced after that attempt.
C5_RetryOnTransient ==
  config.retry.present =>
    \A q \in Queries :
      /\ (qs[q].pc = "sleeping") => (qs[q].result.category \in TransientCategories)
      /\ (qs[q].pc = "done" /\ qs[q].result.kind = "error" /\ qs[q].failed >= 1
            /\ qs[q].attempt < config.retry.maxAttempts)
           => (qs[q].result.category \notin TransientCategories)

\* C9: with maxAttempts >= 1 one query() invokes the pool at most maxAttempts
\* times; k failed attempts followed by a success are exactly k + 1 invocations,
\* and the success is what query() returns.
C9_RetryBound ==
  config.retry.present =>
    \A q \in Queries :
      /\ qs[q].attempt <= config.retry.maxAttempts
      /\ qs[q].failed <= qs[q].attempt
      /\ (qs[q].pc = "done" /\ qs[q].result.kind = "ok") => (qs[q].attempt = qs[q].failed + 1)
      /\ (qs[q].pc = "done" /\ qs[q].failed < qs[q].attempt) => (qs[q].result.kind = "ok")

\* two retryable failures, then the third attempt succeeds (maxAttempts = 3)
C9_Witness ==
  \E q \in Queries :
    /\ config.retry.present /\ config.retry.maxAttempts = 3
    /\ qs[q].pc = "done" /\ qs[q].result.kind = "ok" /\ qs[q].attempt = 3 /\ qs[q].failed = 2

\* C6 (as claimed): once the breaker has opened, with callers that keep calling
\* and a pool that has stopped failing, the breaker eventually is CLOSED again.
C6_BreakerRecovery == (breakerState = "OPEN") ~> (breakerState = "CLOSED")

\* the same, for the configurations with halfOpenMaxCalls >= halfOpenSuccessesToClose
C6_RecoveryWhenEnoughPermits ==
  (config.circuitBreaker.halfOpenMaxCalls >= config.circuitBreaker.halfOpenSuccessesToClose)
    => C6_BreakerRecovery

\* C10 (as claimed): every backoff wait is at most the configured max_delay,
\* and the waits of one operation sum to at most (max_attempts - 1) * max_delay.
C10_SleepBound ==
  /\ bo.lastWait <= bo.cfg.maxDelayMs
  /\ bo.slept <= (bo.cfg.maxAttempts - 1) * bo.cfg.maxDelayMs

\* what the loop does guarantee: the bound with max(initial_delay, max_delay)
C10_EffectiveSleepBound ==
  /\ bo.lastWait <= RetryMaxDelay(bo.cfg)
  /\ bo.attempt <= Max(1, bo.cfg.maxAttempts)
  /\ bo.slept <= Max(0, bo.cfg.maxAttempts - 1) * RetryMaxDelay(bo.cfg)

\* the pool sizes in existence: the local pool and the pool of every thread created
RECURSIVE WorkerPoolTotal(_)
WorkerPoolTotal(n) == IF n = 0 THEN 0 ELSE threads[n].max + WorkerPoolTotal(n - 1)

PoolTotal == localMax + WorkerPoolTotal(Len(threads))

C2_ReleaseOnce ==
  \A r \in DOMAIN releases :
    releases[r].worker # 0 =>
      /\ releases[r].n <= 1
      /\ r \in handled => releases[r].n = 1

\* C3 (as claimed): a request id that was sent is pending or settled, never both, and
\* the pending table is empty once shutdown() has returned.
C3_PendingCorrelation ==
  /\ \A m \in posted : m.requestId \in pendingRequests \cup settled
  /\ pendingRequests \cap settled = {}
  /\ shutdownPc = "returned" => pendingRequests = {}

\* C7 (as claimed): once the shutdown flag is set, no step adds a pending entry or posts
\* a TASK or SESSION_START message.
C7_NoWorkAfterShutdown ==
  [][isShutdown =>
       /\ pendingRequests' \subseteq pendingRequests
       /\ \A m \in posted' \ posted : m.type \notin {"task", "worker"}]_vars

\* C8: every SESSION_QUERY the dispatcher posted for a session id went to the worker
\* that was sent the SESSION_START carrying that id.
C8_SessionAffinity ==
  \A q \in posted :
    q.type = "query" =>
      /\ \E s \in posted : s.type = "worker" /\ s.clientId = q.clientId
      /\ \A s \in posted : (s.type = "worker" /\ s.clientId = q.clientId) => q.worker = s.worker

\* C8 witness: a query was posted for a session after a later task went to another
\* worker and the cursor had moved on
C8_Witness ==
  \E s \in posted, t \in posted, q \in posted :
    /\ s.type = "worker" /\ t.type = "task" /\ q.type = "query"
    /\ q.clientId = s.clientId
    /\ s.requestId < t.requestId /\ t.requestId < q.requestId
    /\ t.worker # s.worker
    /\ Len(workers) > 0 /\ workers[currentWorkerIndex + 1].threadId = s.worker

\* C11 (as claimed): a call that failed in a worker is rejected with a wrapped error
\* whose category is the category of the error the worker caught.
C11_WorkerErrorCategory ==
  \A r \in rejections, f \in failures :
    r.requestId = f.requestId =>
      /\ r.error.wrapped
      /\ r.error.category = categorizeError(f.error)

\* C12 (as claimed): every error query(), task() or worker() rejects with is a
\* PgParallelError carrying a category.
C12_AlwaysWrapped ==
  /\ \A q \in Queries : qs[q].result.kind = "error" =>
       (qs[q].result.wrapped /\ qs[q].result.category # Undefined)
  /\ \A i \in DOMAIN thrown : thrown[i].wrapped /\ thrown[i].category # Undefined
  /\ \A r \in rejections : r.error.wrapped /\ r.error.category # Undefined

\* C13 (as claimed): a task() or session call that was rejected has left no pending
\* entry, and the slot it was assigned is busy only for another request in flight.
C13_SlotReleased ==
  \A r \in rejections :
    /\ r.requestId \notin pendingRequests
    /\ \A i \in DOMAIN workers :
         (workers[i].threadId = r.worker /\ workers[i].isBusy) =>
           \E m \in posted : /\ m.worker = r.worker
                             /\ m.requestId # r.requestId
                             /\ m.requestId \in pendingRequests

\* C14: a query() that arrives when the breaker is OPEN and the cooldown has elapsed
\* moves it to HALF_OPEN, passes the permit check and consumes one permit; a success
\* in HALF_OPEN is counted, and the one that brings the count to
\* halfOpenSuccessesToClose closes the breaker and resets consecutiveFailures to 0.
C14_HalfOpenRecovery ==
  [][LET cfg == getCircuitBreakerConfig
     IN /\ \A q \in Queries :
             /\ ( /\ qs[q].pc = "idle" /\ qs'[q].pc # "idle"
                  /\ breakerState = "OPEN"
                  /\ now - breakerOpenedAt >= cfg.cooldownMs )
                => /\ breakerState' = "HALF_OPEN"
                   /\ qs'[q].pc = "entered"
                   /\ halfOpenAllowedCalls' = cfg.halfOpenMaxCalls - 1
             /\ ( /\ qs[q].pc = "calling" /\ qs'[q].pc = "done"
                  /\ qs'[q].result.kind = "ok"
                  /\ breakerState = "HALF_OPEN" )
                => IF halfOpenSuccesses + 1 >= cfg.halfOpenSuccessesToClose
                     THEN breakerState' = "CLOSED" /\ consecutiveFailures' = 0
                     ELSE /\ breakerState' = "HALF_OPEN"
                          /\ halfOpenSuccesses' = halfOpenSuccesses + 1
        /\ breakerState' = "HALF_OPEN" => halfOpenSuccesses' < cfg.halfOpenSuccessesToClose
    ]_vars

\* C14 witness: the breaker has closed after two successful half-open trials
C14_Witness ==
  /\ breakerState = "CLOSED"
  /\ consecutiveFailures = 0
  /\ config.circuitBreaker.halfOpenSuccessesToClose = 2
  /\ halfOpenSuccesses = 2

\* C15 (as claimed): a worker handles one message at a time: no handler starts while
\* another handler of the same worker has not sent its reply.
C15_OneMessageAtATime ==
  \A w \in DOMAIN threads : Cardinality(HandlersOf(w)) <= 1

\* C16: worker initialisation runs at most once: workers are spawned only by the call
\* that finds no init promise and no shutdown flag, all maxWorkers of them at once and
\* never more; the init promise, once created, is the one every caller gets; nothing is
\* spawned after initialisation has completed or after shutdown().
C16_SingleInitialization ==
  [][/\ Len(threads') <= poolConfig.maxWorkers
     /\ Len(threads') # Len(threads) =>
          /\ initializationPromise = "null" /\ ~isShutdown
          /\ Len(threads) = 0 /\ Len(threads') = poolConfig.maxWorkers
          /\ initializationPromise' = "pending"
     /\ initializationPromise # "null" => initializationPromise' # "null"
     /\ (initializationPromise = "resolved" \/ isShutdown) => Len(threads') = Len(threads)
    ]_vars

\* C16 witness: two callers wait on the init promise of one initialisation of 2 workers
C16_Witness ==
  /\ Len(awaiting) = 2
  /\ initializationPromise = "pending"
  /\ poolConfig.maxWorkers = 2
  /\ Len(threads) = 2

\* C17: localPool.end() is called at most once and terminate() at most once per worker;
\* a call of shutdown() that finds the flag set changes nothing of the dispatcher.
C17_ShutdownIdempotent ==
  [][/\ ends'.pool <= 1
     /\ \A w \in DOMAIN ends'.workers : ends'.workers[w] <= 1
     /\ (ends'.calls > ends.calls /\ isShutdown) =>
          /\ ends'.pool = ends.pool /\ ends'.workers = ends.workers
          /\ UNCHANGED <<isShutdown, shutdownPc, workers, threads, pendingRequests,
                         initializationPromise, breakerState, consecutiveFailures,
                         halfOpenAllowedCalls, halfOpenSuccesses, breakerOpenedAt>>
    ]_vars

\* C17 witness: shutdown() was called twice, has returned, and both workers were
\* terminated
C17_Witness ==
  /\ ends.calls = 2
  /\ shutdownPc = "returned"
  /\ ends.pool = 1
  /\ Len(ends.workers) = 2
  /\ \A w \in DOMAIN ends.workers : ends.workers[w] = 1

\* C19: a task() or worker() call that begins when the shutdown flag is set throws the
\* shut-down error and spawns no worker, adds no pending entry, marks no slot busy and
\* posts nothing.
C19_RejectedAfterShutdown ==
  [][(isShutdown /\ Len(thrown') + Len(awaiting') > Len(thrown) + Len(awaiting)) =>
       /\ thrown' = Append(thrown, ShutDownError)
       /\ UNCHANGED <<awaiting, threads, workers, pendingRequests, posted, uuids,
                      initializationPromise, parallelClients>>
    ]_vars

\* C19 witness: workers exist, shutdown() was called and a later call was rejected
C19_Witness ==
  /\ isShutdown
  /\ Len(threads) > 0
  /\ Len(thrown) > 0
  /\ thrown[Len(thrown)] = ShutDownError

\* C18 (as claimed): every query() called after shutdown() has returned fails with
\* the local pool's 'Cannot use a pool after calling end on the pool'.
C18_PoolClosedAfterShutdown ==
  \A q \in Queries :
    (qs[q].late /\ qs[q].pc = "done") =>
      /\ qs[q].result.kind = "error"
      /\ qs[q].result.message = PoolClosedError.message

\* C20: with maxWorkers = 0 no worker is ever spawned and nothing is sent or left
\* pending; the init promise is resolved as soon as it is created; every task() or
\* worker() call that passed the shutdown test is rejected with the 'No workers
\* available. Configure 'maxWorkers' ...' error, which leaves the breaker and the
\* queries untouched; and a query() running on a local pool that was not ended can
\* succeed.
C20_NoWorkers ==
  [][poolConfig.maxWorkers = 0 =>
       /\ threads' = <<>> /\ workers' = <<>>
       /\ pendingRequests' = {} /\ posted' = {}
       /\ initializationPromise' \in {"null", "resolved"}
       /\ Len(awaiting') > Len(awaiting) => initializationPromise' = "resolved"
       /\ Len(awaiting') < Len(awaiting) =>
            /\ Len(thrown') = Len(thrown) + 1
            /\ thrown'[Len(thrown')].message =
                 "No workers available. Configure 'maxWorkers' to be greater than 0 to use this feature."
       /\ thrown' # thrown => UNCHANGED resVars
       /\ \A q \in Queries :
            (qs[q].pc = "calling" /\ ~qs[q].ended) => ENABLED PoolSucceed(q)
    ]_vars

\* C20 witness: two calls were rejected for want of workers and a query() has succeeded
C20_Witness ==
  /\ poolConfig.maxWorkers = 0
  /\ initializationPromise = "resolved"
  /\ threads = <<>>
  /\ thrown = <<NoWorkersError, NoWorkersError>>
  /\ \E q \in Queries : qs[q].pc = "done" /\ qs[q].result.kind = "ok"

\* C21 (as claimed): a session start or session query that finds the worker's breaker
\* OPEN within the cooldown after its await performs no connect and no query and is
\* answered with 'Worker circuit breaker is open'; the call is rejected at the
\* dispatcher with that message and the category CONNECTION.
C21_WorkerBreakerOpen ==
  [][/\ \A h \in handlers :
          (h.pc = "entered" /\ WorkerInOpenWindow(h.worker) /\ h \notin handlers') =>
            /\ \A g \in handlers' : g.requestId # h.requestId
            /\ Reply(h, WorkerBreakerOpen) \in replies'
     /\ \A r \in rejections' :
          r.error.message = WorkerBreakerOpen.message => r.error.category = "CONNECTION"
    ]_vars

\* C22 (as claimed): categorizing the wrapped error gives the category of the error
\* that was wrapped, which is the category stored on the wrapped error.
C22_WrapRoundTrip ==
  wrapping.pc = "categorized" =>
    /\ wrapping.category = categorizeError(wrapping.error)
    /\ wrapping.category = wrapping.wrapped.category

\* C23: a promise registered in pendingRequests is settled only in a step that takes a
\* reply carrying the request's own id, and that step settles no other request; a reply
\* is posted only by the handler of the message with that id, carrying the value of that
\* request's own function or the message of the error that handler caught; a rejection
\* carries the message of its own reply (the other rejection of a call is the exception
\* its own postMessage threw).
C23_ReplyCorrelation ==
  [][/\ \A r \in pendingRequests \ pendingRequests' :
          /\ pendingRequests \ pendingRequests' = {r}
          /\ \E m \in replies \ replies' :
               /\ m.requestId = r
               /\ m.ok => (m.data = ResultOf(r) /\ rejections' = rejections)
               /\ ~m.ok => \E j \in rejections' :
                             j.requestId = r /\ j.error.message = m.error.message
     /\ \A j \in rejections' \ rejections :
          j.error # DataCloneError => j.requestId \in pendingRequests \ pendingRequests'
     /\ \A m \in replies' \ replies :
          /\ m.requestId \in handled' \ handled
          /\ m.requestId \in {p.requestId : p \in posted}
          /\ m.ok => m.data = ResultOf(m.requestId)
          /\ ~m.ok => \E f \in failures' :
                        f.requestId = m.requestId /\ ErrorPayload(f.error) = m.error
    ]_vars

\* C23 witness: two tasks were sent to the same worker and the second was settled, by
\* its own reply, while the first is still pending
C23_Witness ==
  /\ 1 \in pendingRequests
  /\ 2 \in settled
  /\ \E a, b \in posted :
       /\ a.requestId = 1 /\ b.requestId = 2
       /\ a.type = "task" /\ b.type = "task"
       /\ a.worker = b.worker

\* C24: when a worker takes a query message whose clientId is not in its activeClients
\* table, no query is started, the reply carries the error 'Query failed: Client <id>
\* not found.', and the table, the clients' releases and the worker's breaker are left
\* as they were.
C24_ClientNotFound ==
  [][\A w \in DOMAIN threads :
       (/\ threads[w].state = "online" /\ threads'[w].state = "online"
        /\ threads[w].inbox # <<>>
        /\ threads'[w].inbox = Tail(threads[w].inbox)
        /\ Head(threads[w].inbox).type = "query"
        /\ Head(threads[w].inbox).clientId # NoId
        /\ Caught(w, Head(threads[w].inbox).clientId) = {}) =>
         /\ handlers' = handlers
         /\ \E m \in replies' \ replies :
              /\ m.requestId = Head(threads[w].inbox).requestId
              /\ ~m.ok
              /\ m.error.message = "Query failed: Client not found."
         /\ UNCHANGED <<activeClients, releases, workerBreaker>>
    ]_vars

\* C24 witness: a query for a session that is not (or no longer) in the table was
\* answered 'not found' while another session holds a client on that worker
C24_Witness ==
  /\ \E m \in replies : ~m.ok /\ m.error.message = ClientNotFound.message
  /\ activeClients # {}

\* C25: with a logger attached, every step in which the breaker enters OPEN writes the
\* warn 'Breaker OPENED'; every rejection of a query() by the OPEN test writes the warn
\* 'Breaker OPEN - rejecting operation' with opName; every entry to HALF_OPEN and every
\* recovery from HALF_OPEN to CLOSED writes its info; and every attempt after the first
\* writes the info 'Retrying operation' with opName and the attempt number.
C25_ResilienceLogged ==
  [][log.attached =>
       /\ (breakerState # "OPEN" /\ breakerState' = "OPEN") =>
            BreakerOpenedRecord \in log'.records
       /\ \A q \in Queries :
            (qs[q].pc = "entered" /\ qs'[q].pc = "done"
               /\ qs'[q].result.message = "Circuit breaker is open") =>
              RejectRecord("main.query") \in log'.records
       /\ (breakerState # "HALF_OPEN" /\ breakerState' = "HALF_OPEN") =>
            BreakerHalfOpenRecord \in log'.records
       /\ (breakerState = "HALF_OPEN" /\ breakerState' = "CLOSED") =>
            BreakerClosedRecord \in log'.records
       /\ \A q \in Queries :
            (qs[q].pc # "calling" /\ qs'[q].pc = "calling" /\ qs'[q].attempt > 1) =>
              RetryRecord("main.query", qs'[q].attempt) \in log'.records
    ]_vars

\* C25 witness: the breaker, which had opened and gone HALF_OPEN, has just closed again
\* and the recovery was logged
C25_Witness ==
  /\ log.attached
  /\ breakerState = "CLOSED"
  /\ BreakerClosedRecord \in log.records
  /\ config.circuitBreaker.halfOpenSuccessesToClose = 2

\* C26: lazy initialization: after construction no worker exists; a step of query()
\* (any step that changes a caller of query()) spawns no worker and leaves the
\* worker list and the initialization promise alone; the worker fleet comes into
\* being in one step only, a warmup() or the entry of a task()/worker() call taken
\* while the promise was still null, which spawns exactly maxWorkers workers
C26_LazyInitialization ==
  [][/\ initializationPromise = "null" => threads = <<>> /\ workers = <<>>
     /\ qs' # qs => /\ threads' = threads
                    /\ workers' = workers
                    /\ initializationPromise' = initializationPromise
     /\ Len(threads') # Len(threads) =>
          /\ Warmup \/ \E call \in Calls : CallEnter(call)
          /\ initializationPromise = "null"
          /\ threads = <<>>
          /\ Len(threads') = poolConfig.maxWorkers
    ]_vars

\* queries have failed on the local pool and another is in flight, and still no
\* worker exists although maxWorkers > 0
C26_Witness ==
  /\ poolConfig.maxWorkers > 0
  /\ consecutiveFailures >= 2
  /\ \E q \in Queries : qs[q].pc = "calling"
  /\ threads = <<>>
  /\ initializationPromise = "null"

\* the fleet was created by a later warmup()/task() while queries had already run
C26_WitnessSpawned ==
  /\ consecutiveFailures >= 2
  /\ Len(threads) = MaxWorkers
  /\ awaiting # <<>>

\* C27: eventual completion: under fair scheduling every task() or worker() call
\* that was registered in pendingRequests is eventually settled (its entry is
\* removed and its promise resolved or rejected), whatever happens to its worker
C27_EventualCompletion ==
  \A r \in 1 .. MaxUuids :
    (r \in pendingRequests /\ \E m \in posted : m.requestId = r /\ m.type # "query")
      ~> (r \notin pendingRequests)

\* C27, second half: no request is posted to a worker thread that has already exited
C27_NoDispatchToExited ==
  [][\A m \in posted' \ posted : threads[m.worker].state # "terminated"]_vars

\* C28: the checked-out-client table: a worker's table has an entry for a session's
\* client id exactly while the body of that session is running on that worker, the
\* client under the entry is the one the session checked out and it is not yet
\* released; once the session's handler is gone (its reply posted) the client has
\* been released exactly once
C28_ClientTable ==
  /\ \A w \in 1 .. MaxWorkers, c \in 1 .. MaxUuids :
       (\E a \in activeClients : a.worker = w /\ a.clientId = c)
         <=> (\E h \in handlers : /\ h.worker = w /\ h.type = "worker" /\ h.pc = "body"
                                  /\ ~h.workerFile /\ h.payloadClientId = c)
  /\ \A a \in activeClients :
       /\ releases[a.session].worker = a.worker
       /\ releases[a.session].n = 0
       /\ \E h \in handlers : h.requestId = a.session /\ h.pc = "body"
  /\ \A r \in DOMAIN releases :
       (releases[r] # NoCheckout /\ ~\E h \in handlers : h.requestId = r)
         => releases[r].n = 1

\* C29: the busy flag: a worker slot is marked busy if and only if a task or session
\* request that was dispatched to that worker (posted, or registered for it when
\* postMessage threw) is still waiting for its own reply
C29_BusyFlag ==
  \A i \in DOMAIN workers :
    workers[i].isBusy <=>
      \/ \E m \in posted : /\ m.type # "query"
                           /\ m.worker = workers[i].threadId
                           /\ m.requestId \in pendingRequests
      \/ \E j \in rejections : /\ j.error = DataCloneError
                               /\ j.worker = workers[i].threadId
                               /\ j.requestId \in pendingRequests

\* C30: with failureThreshold >= 1 the breaker starts CLOSED with every counter 0; in
\* every state where it is CLOSED the consecutive-failure count is below
\* failureThreshold; a failure while CLOSED adds one to the count and opens the
\* breaker exactly when the count reaches failureThreshold; the breaker leaves
\* CLOSED only that way, and only for OPEN; a success while CLOSED resets the count
\* to 0 and leaves the breaker CLOSED
C30_ClosedCounting ==
  /\ breakerState = "CLOSED" /\ consecutiveFailures = 0
       /\ halfOpenAllowedCalls = 0 /\ halfOpenSuccesses = 0
  /\ [](breakerState = "CLOSED" =>
          consecutiveFailures < getCircuitBreakerConfig.failureThreshold)
  /\ [][breakerState = "CLOSED" =>
          /\ breakerState' # "CLOSED" =>
               /\ breakerState' = "OPEN"
               /\ consecutiveFailures' = consecutiveFailures + 1
               /\ consecutiveFailures' = getCircuitBreakerConfig.failureThreshold
          /\ \A q \in Queries :
               (qs[q].pc = "calling" /\ qs'[q].pc \in {"sleeping", "done"}
                  /\ qs'[q].result.kind = "error") =>
                 /\ consecutiveFailures' = consecutiveFailures + 1
                 /\ breakerState' = "OPEN" <=>
                      consecutiveFailures' >= getCircuitBreakerConfig.failureThreshold
          /\ \A q \in Queries :
               (qs[q].pc = "calling" /\ qs'[q].pc = "done" /\ qs'[q].result.kind = "ok") =>
                 /\ consecutiveFailures' = 0
                 /\ breakerState' = "CLOSED"
      ]_vars

\* the second consecutive failure has just opened a breaker with failureThreshold 2
C30_Witness ==
  /\ getCircuitBreakerConfig.failureThreshold = 2
  /\ breakerState = "OPEN"
  /\ consecutiveFailures = 2
  /\ breakerOpenedAt = now
  /\ \E q \in Queries : qs[q].pc = "done" /\ qs[q].result.kind = "error" /\ qs[q].failed = 1

\* C31: half-open permits: the permit counter is never negative and never above
\* halfOpenMaxCalls; the breaker enters HALF_OPEN holding exactly halfOpenMaxCalls
\* permits; while it stays HALF_OPEN no step adds a permit and every admitted call
\* takes exactly one, so at most halfOpenMaxCalls calls are admitted before the next
\* exit; a call made in HALF_OPEN with no permit left is rejected with 'Circuit
\* breaker trial limit reached', has run no attempt and leaves every breaker field
\* as it was, and no call is rejected that way while a permit is left
C31_HalfOpenPermits ==
  /\ [](/\ halfOpenAllowedCalls >= 0
        /\ halfOpenAllowedCalls <= getCircuitBreakerConfig.halfOpenMaxCalls)
  /\ [][/\ (breakerState # "HALF_OPEN" /\ breakerState' = "HALF_OPEN") =>
             /\ breakerState = "OPEN"
             /\ halfOpenAllowedCalls = getCircuitBreakerConfig.halfOpenMaxCalls
        /\ (breakerState = "HALF_OPEN" /\ breakerState' = "HALF_OPEN") =>
             halfOpenAllowedCalls' <= halfOpenAllowedCalls
        /\ \A q \in Queries :
             (qs[q].pc = "idle" /\ qs'[q].pc = "entered" /\ breakerState' = "HALF_OPEN") =>
               /\ halfOpenAllowedCalls > 0
               /\ halfOpenAllowedCalls' = halfOpenAllowedCalls - 1
        /\ \A q \in Queries :
             (qs[q].pc = "idle" /\ qs'[q].pc # "idle"
                /\ breakerState = "HALF_OPEN" /\ halfOpenAllowedCalls = 0) =>
               /\ qs'[q].pc = "done"
               /\ qs'[q].result.message = "Circuit breaker trial limit reached"
               /\ qs'[q].attempt = 0
               /\ UNCHANGED <<breakerState, consecutiveFailures, halfOpenAllowedCalls,
                              halfOpenSuccesses, breakerOpenedAt>>
        /\ \A q \in Queries :
             (qs[q].pc = "idle" /\ qs'[q].pc = "done") =>
               /\ breakerState = "HALF_OPEN"
               /\ halfOpenAllowedCalls = 0
       ]_vars

\* two calls were admitted in HALF_OPEN and are in flight, and a third was rejected
C31_Witness ==
  /\ getCircuitBreakerConfig.halfOpenMaxCalls = 2
  /\ breakerState = "HALF_OPEN"
  /\ halfOpenAllowedCalls = 0
  /\ halfOpenSuccesses = 1
  /\ \E q \in Queries : /\ qs[q].pc = "done"
                        /\ qs[q].result.message = "Circuit breaker trial limit reached"

\* C32: a failure reported while the breaker is HALF_OPEN moves it to OPEN with
\* opened-at = the time of that failure, the permits back at halfOpenMaxCalls and the
\* half-open successes at 0; while less than the cooldown has elapsed since then the
\* breaker stays OPEN with that opened-at time, and every call of query() that
\* reaches the breaker test in that period is rejected with 'Circuit breaker is
\* open' and starts no attempt
C32_HalfOpenFailureReopens ==
  [][/\ \A q \in Queries :
          (breakerState = "HALF_OPEN" /\ qs[q].pc = "calling"
             /\ qs'[q].pc \in {"sleeping", "done"} /\ qs'[q].result.kind = "error") =>
            /\ breakerState' = "OPEN"
            /\ breakerOpenedAt' = now
            /\ halfOpenAllowedCalls' = getCircuitBreakerConfig.halfOpenMaxCalls
            /\ halfOpenSuccesses' = 0
     /\ InOpenWindow =>
          /\ breakerState' = "OPEN" /\ breakerOpenedAt' = breakerOpenedAt
          /\ \A q \in Queries :
               (qs[q].pc = "entered" /\ qs'[q].pc # "entered") =>
                 /\ qs'[q].pc = "done"
                 /\ qs'[q].result.message = "Circuit breaker is open"
                 /\ qs'[q].attempt = 0
    ]_vars

\* the breaker was re-opened by a failure in HALF_OPEN (one failure more than the
\* threshold, at a time past the first cooldown) and a call made since was rejected
C32_Witness ==
  /\ breakerState = "OPEN"
  /\ consecutiveFailures = getCircuitBreakerConfig.failureThreshold + 1
  /\ breakerOpenedAt >= MaxCooldown
  /\ now > breakerOpenedAt
  /\ halfOpenAllowedCalls = getCircuitBreakerConfig.halfOpenMaxCalls
  /\ \E q \in Queries : /\ qs[q].pc = "done"
                        /\ qs[q].result.message = "Circuit breaker is open"

\* C33: retry and breaker together: when an attempt after the first of a retried
\* query() succeeds while no other call is in flight, the breaker is not OPEN once
\* query() has resolved, so a query() called next is not rejected with 'Circuit
\* breaker is open'
C33_RetrySuccessNotOpen ==
  [][\A q \in Queries :
       (/\ qs[q].pc = "calling" /\ qs[q].attempt > 1
        /\ qs'[q].pc = "done" /\ qs'[q].result.kind = "ok"
        /\ \A o \in Queries \ {q} : qs[o].pc = "idle")
         => breakerState' # "OPEN"
    ]_vars

\* C34: the default retry predicate: for every error value, each implementation of
\* isTransient (the dispatcher's, ErrorUtils' optimized one, the worker's) answers
\* true exactly when the category of the error is one of TRANSIENT, CONNECTION,
\* TIMEOUT, DEADLOCK, SERIALIZATION
C34_TransientIffCategory ==
  wrapping.pc = "decided" =>
    /\ wrapping.transient.dispatcher = (wrapping.category.dispatcher \in TransientCategories)
    /\ wrapping.transient.table = (wrapping.category.table \in TransientCategories)
    /\ wrapping.transient.worker = (wrapping.category.dispatcher \in TransientCategories)

\* C34, the dispatcher's predicate alone
C34_DispatcherPredicate ==
  wrapping.pc = "decided" =>
    wrapping.transient.dispatcher = (wrapping.category.dispatcher \in TransientCategories)

\* the rule table of the classification, in order: what a rule tests and the category
\* it gives
ClassificationRules ==
  << [field |-> "code", values |-> {"40001"}, category |-> "SERIALIZATION"],
     [field |-> "code", values |-> {"40P01"}, category |-> "DEADLOCK"],
     [field |-> "code", values |-> {"ETIMEDOUT", "57014"}, category |-> "TIMEOUT"],
     [field |-> "code", values |-> {"ECONNRESET", "ECONNREFUSED", "57P01", "57P02"},
      category |-> "CONNECTION"],
     [field |-> "code", values |-> Codes23, category |-> "CONSTRAINT"],
     [field |-> "code", values |-> Codes42, category |-> "SYNTAX"],
     [field |-> "name", values |-> {"SequelizeConnectionError"}, category |-> "CONNECTION"],
     [field |-> "message", values |-> TimeoutMessages, category |-> "TIMEOUT"],
     [field |-> "message", values |-> ConnectionMessages, category |-> "CONNECTION"],
     [field |-> "message", values |-> DeadlockMessages, category |-> "DEADLOCK"] >>

\* the error the rules are applied to: the first sub-error of a non-empty aggregate,
\* recursively
RECURSIVE FirstSubError(_)
FirstSubError(e) ==
  IF e.name = "AggregateError" /\ Len(e.errors) > 0 THEN FirstSubError(e.errors[1]) ELSE e

\* the category of the first rule that matches, UNKNOWN when none does
FirstMatch(e) ==
  LET leaf == FirstSubError(e)
      hits == {i \in DOMAIN ClassificationRules :
                 leaf[ClassificationRules[i].field] \in ClassificationRules[i].values}
  IN IF hits = {} THEN "UNKNOWN"
     ELSE ClassificationRules[CHOOSE i \in hits : \A j \in hits : i <= j].category

\* C40: error classification is first-match-wins over the rule table for every error
\* value: the dispatcher's classifier returns the category of the first matching rule
\* applied to the first sub-error of a non-empty aggregate; an error whose code matches
\* a code rule gets the category of that code whatever its name and message are; and
\* both ErrorUtils implementations return the same category as the dispatcher's
C40_FirstMatchWins ==
  wrapping.pc \in {"categorized", "decided"} =>
    /\ wrapping.category.dispatcher = FirstMatch(wrapping.error)
    /\ LET leaf == FirstSubError(wrapping.error)
       IN \A i \in 1 .. 6 :
            leaf.code \in ClassificationRules[i].values =>
              wrapping.category.dispatcher =
                FirstMatch(LeafError(leaf.code, Undefined, Undefined))
    /\ wrapping.category.utils = wrapping.category.dispatcher
    /\ wrapping.category.table = wrapping.category.dispatcher

\* a constraint violation inside an AggregateError whose message matches two message
\* rules was classified by its code
C40_Witness ==
  /\ wrapping.pc = "categorized"
  /\ wrapping.error.name = "AggregateError"
  /\ FirstSubError(wrapping.error).code = "23505"
  /\ FirstSubError(wrapping.error).name = "SequelizeConnectionError"
  /\ FirstSubError(wrapping.error).message = "connection timeout"
  /\ wrapping.category.dispatcher = "CONSTRAINT"
  /\ wrapping.category.table = "CONSTRAINT"

\* an error without a code whose message matches the timeout and the connection rule
\* was classified TIMEOUT
C40_WitnessMessageOrder ==
  /\ wrapping.pc = "categorized"
  /\ wrapping.error.code = Undefined
  /\ wrapping.error.name = "Error"
  /\ wrapping.error.message = "connection timeout"
  /\ wrapping.category.dispatcher = "TIMEOUT"

\* the two managers agree: a call returns the same result or error from both, and
\* whenever no call is in progress the two breakers hold the same state and counters
PathsAgree ==
  /\ \A c \in Callers :
       paths.standard.calls[c].pc = "done" /\ paths.fast.calls[c].pc = "done"
         => paths.standard.calls[c].result = paths.fast.calls[c].result
  /\ (\A c \in Callers : /\ paths.standard.calls[c].pc \in {"idle", "done"}
                         /\ paths.fast.calls[c].pc \in {"idle", "done"})
       => paths.standard.b = paths.fast.b

\* C35: the fast path is equivalent to the standard path: given the same concurrent
\* calls and the same outcome of every operation, a call returns the same result or
\* error from the manager with the fast path as from the manager without it, and the
\* two breakers end with the same state and counters; asked here of the interleavings
\* in which nothing runs between a call's await of ensureBreakerState and its
\* continuation, where the two paths start every operation at the same moment
C35_FastPathEquivalent == paths.raced \/ PathsAgree

\* the same equivalence in every interleaving, a failure of another call between the
\* await and its continuation included
C35_EquivalentInEveryInterleaving == PathsAgree

\* the workers that the request registered by this step was addressed to
PickedWorkers ==
  {x.worker : x \in {y \in posted' : y.requestId = uuids + 1}}
    \cup {x.worker : x \in {y \in rejections' : y.requestId = uuids + 1}}

\* this step is task()/worker() picking a worker
IsPick == awaiting' # awaiting /\ pendingRequests' # pendingRequests

\* C36: scheduling: a pick returns the first slot, scanning from the cursor, whose busy
\* flag is false; it returns a busy slot only when every slot is busy, and then the slot
\* at the cursor; after the pick the cursor is (picked index + 1) mod W; the cursor is
\* always within 0..W-1 (0 while there is no slot)
C36_Scheduling ==
  /\ [](currentWorkerIndex \in 0 .. Max(Len(workers), 1) - 1 \/ workers = <<>>)
  /\ [](currentWorkerIndex \in 0 .. Max(poolConfig.maxWorkers, 1) - 1)
  /\ [][IsPick =>
          LET W == Len(workers)
              busy(k) == workers[((currentWorkerIndex + k) % W) + 1].isBusy
          IN \E k \in 0 .. W - 1 :
               LET p == (currentWorkerIndex + k) % W
               IN /\ PickedWorkers = {workers[p + 1].threadId}
                  /\ workers'[p + 1].isBusy
                  /\ \A j \in 0 .. k - 1 : busy(j)
                  /\ busy(k) => k = 0 /\ \A j \in 0 .. W - 1 : busy(j)
                  /\ currentWorkerIndex' = (p + 1) % W]_vars

\* three requests were dispatched to two slots and none was answered: the third pick
\* found every slot busy, and both slots are busy with the cursor past the slot taken twice
C36_Witness ==
  /\ Len(workers) = MaxWorkers
  /\ \A i \in DOMAIN workers : workers[i].isBusy
  /\ settled = {} /\ replies = {}
  /\ \E a, b, c \in posted :
       /\ a.requestId < b.requestId /\ b.requestId < c.requestId
       /\ {a.type, b.type, c.type} \subseteq {"task", "worker"}
       /\ a.worker # b.worker /\ c.worker = a.worker
       /\ workers[currentWorkerIndex + 1].threadId = b.worker

\* the task() and session calls that picked a worker so far, each with its worker
Dispatched ==
  {[requestId |-> x.requestId, worker |-> x.worker] :
     x \in {y \in posted : y.type \in {"task", "worker"}}}
    \cup {[requestId |-> x.requestId, worker |-> x.worker] :
            x \in {y \in rejections : y.error = DataCloneError}}

BusySlots == {i \in DOMAIN workers : workers[i].isBusy}

\* C37: parallel placement: k <= W task() or session calls issued while all W workers
\* are idle and before any reply arrives are assigned to k distinct workers: up to the
\* first reply handled, the first W calls dispatched went to pairwise distinct workers
\* and as many slots are busy as calls were dispatched; and at any time a call issued
\* while some worker is idle takes an idle worker and leaves the other flags alone
C37_ParallelPlacement ==
  /\ [](settled = {} /\ workers # <<>> /\ Cardinality(Dispatched) <= Len(workers)
          => /\ \A a, b \in Dispatched : a # b => a.worker # b.worker
             /\ Cardinality(BusySlots) = Cardinality(Dispatched))
  /\ [][IsPick /\ Cardinality(BusySlots) < Len(workers)
          => \E i \in DOMAIN workers \ BusySlots :
               /\ PickedWorkers = {workers[i].threadId}
               /\ BusySlots' = BusySlots \cup {i}]_vars

\* W = 2 calls were dispatched before any reply, one of them a session, and each
\* worker has one of them
C37_Witness ==
  /\ settled = {} /\ replies = {}
  /\ Len(workers) = MaxWorkers
  /\ Cardinality(Dispatched) = MaxWorkers
  /\ {d.worker : d \in Dispatched} = {workers[i].threadId : i \in DOMAIN workers}
  /\ \E x \in posted : x.type = "worker"

\* this step is a shutdown() call returning: the call that did the work, after
\* this.workers = [], or a call that found isShutdown set
ShutdownReturns ==
  \/ shutdownPc # "returned" /\ shutdownPc' = "returned"
  \/ isShutdown /\ ends'.calls = ends.calls + 1

\* C38: shutdown postcondition under concurrency: when any shutdown() call returns, a
\* second call made while the first is in progress included, localPool.end() has been
\* called, every worker thread is terminated and the worker slot list is empty
C38_ShutdownPostcondition ==
  [][ShutdownReturns
       => /\ ends'.pool >= 1
          /\ \A w \in DOMAIN threads' : threads'[w].state = "terminated"
          /\ workers' = <<>>]_vars

\* this step is handleWorkerMessage(m)
IsHandling(m) == m \in replies /\ replies' = replies \ {m} /\ threads' = threads

\* C39: a reply whose request id has no pending entry settles no future and leaves the
\* pending table unchanged; a reply whose id is pending settles it and removes it,
\* whether or not its worker id matches a slot; so an entry is settled at most once, and
\* removed once, when it is settled
C39_ReplyWithoutEntry ==
  /\ [](pendingRequests \cap settled = {})
  /\ [][\A m \in replies : IsHandling(m) =>
          IF m.requestId \in pendingRequests
            THEN /\ pendingRequests' = pendingRequests \ {m.requestId}
                 /\ settled' = settled \cup {m.requestId}
                 /\ m.ok <=> rejections' = rejections
            ELSE UNCHANGED <<pendingRequests, settled, rejections>>]_vars
  /\ [][/\ settled \subseteq settled'
        /\ settled' \ settled = pendingRequests \ pendingRequests'
        /\ Cardinality(settled' \ settled) <= 1]_vars

\* request 1 was rejected by a reply tagged with a worker id that matches no slot, and
\* the worker's own reply for request 1 arrived after it and was handled as well
C39_Witness ==
  /\ \E x \in rejections : x.requestId = 1 /\ x.worker = StrayWorker
  /\ 1 \in settled /\ 1 \in handled
  /\ replies = {} /\ shutdownPc = "none"
  /\ pendingRequests # {}

\* a reply for request 1 is about to be handled although request 1 was never registered
C39_WitnessUnknownId ==
  \E m \in replies : m.requestId = 1 /\ uuids = 0

====
